---- MODULE Spec2Model ----
(***************************************************************************)
(* Temporal feature and similarity-index engine of FinX.                   *)
(*                                                                         *)
(* The pipeline stages (src/pipelines/data_pipeline.py) are modelled as    *)
(* actions over the artifacts they exchange.  The leakage properties are   *)
(* two-run properties: every artifact of those stages is kept once per     *)
(* run (Runs), run 2 being given an input that differs from run 1's.       *)
(*                                                                         *)
(* Dates are trading-day ordinals 1, 2, 3, ...; a date-indexed series is a *)
(* function from dates to values, NaN being the missing value.             *)
(***************************************************************************)
EXTENDS Integers, Sequences, FiniteSets, TLC

VARIABLES
    prices,           \* [Runs -> [ticker -> [1..n -> price]]]
    train_end_date,   \* the training cutoff (a date; 0 lies before every row)
    returns_clipped,  \* [Runs -> [ticker -> [date -> return]]]
    thresholds,       \* [Runs -> the thresholds record | None]
    features_all,     \* [Runs -> [column -> [date -> value]] | None]
    scaler_regime,    \* [Runs -> the fitted regime standardizer | None]
    kmeans_regime,    \* [Runs -> the fitted regime k-means model | None]
    pc,               \* [Runs -> the stage a run is at]
    altered           \* whether run 2's input has been made to differ

VARIABLES
    scaling_method,   \* the scaling_method argument of scale_features
    scaler_features,  \* [Runs -> the scaler fitted inside scale_features | None]
    features_scaled   \* [Runs -> [column -> [date -> value]] | None]

VARIABLES
    val_end_date,     \* the validation cutoff of export_for_models
    tickers,          \* the tickers argument of export_for_models and of the index step
    exported,         \* the split files written: [<<view, split>> -> [X, y]]
    validated,        \* the checks export_for_models ran: {<<view, split, kind>>}
    export_error      \* the exception export_for_models raised, None if it raised none

VARIABLES
    window_size,      \* config['windows']['window_size']
    distance_metric,  \* config['collection']['distance_metric']
    collection,       \* the Qdrant collection: Absent | [size, distance, points: id -> point]
    window_stride,    \* config['windows']['stride']
    min_required_points,  \* config['windows']['min_required_points']
    windows,          \* what create_sliding_windows returned: None | [status, vectors, metadata]
    indexing_state,   \* the window keys listed in the indexing state file
    index_result      \* how the last indexing run ended: None | "ok" | "error"

VARIABLES
    query,            \* the arguments of query_similar_windows: [query_vector, top_k, ...]
    results,          \* what query_similar_windows returned: a list of hits
    prediction,       \* what calculate_weighted_prediction returned
    anomaly,          \* what calculate_anomaly_score returned
    ensemble          \* what create_ensemble_features returned

VARIABLES
    groq_client,      \* webapp/backend/main.py: whether the Groq client was created
    alpaca_trading_available,  \* whether the Alpaca client was created
    health_response,  \* the answer to the last GET /health
    now,              \* the clock of the backend, in steps of 5 minutes
    users_db,         \* [email -> the user record]
    login_attempts,   \* [email -> the list of <<time, success>>]
    temp_tokens_db,   \* the temp tokens of the 2FA flow: [token -> [email, created_at]]
    tokens_db,        \* the access tokens issued: a list of [email, at, by, locked]
    next_temp_token   \* the number of the next temp token

VARIABLES
    bot_state,        \* bot_state["running"]
    bot_task,         \* the global bot_task: None or the number of a task
    tasks,            \* [task number -> "pending" | "waiting" | "cancelling" | "done"]
    handlers          \* the requests being handled: a list of [endpoint, at, awaits]

VARIABLES
    risk_manager,     \* the RiskManager object: its state fields
    risk_state_file,  \* trading/risk_state.json: Absent or the saved state
    today,            \* the date
    drawdown_verdict  \* what the last check_drawdown returned

varsPipeline == <<prices, train_end_date, returns_clipped, thresholds,
                  features_all, scaler_regime, kmeans_regime, pc, altered>>
varsScale == <<scaling_method, scaler_features, features_scaled>>
varsExport == <<val_end_date, tickers, exported, validated, export_error>>
varsIndex == <<window_size, window_stride, min_required_points, windows,
               distance_metric, collection, indexing_state, index_result>>
varsQuery == <<query, results, prediction, anomaly, ensemble>>
varsHealth == <<groq_client, alpaca_trading_available, health_response>>
varsAuth == <<now, users_db, login_attempts, temp_tokens_db, tokens_db, next_temp_token>>
varsBot == <<bot_state, bot_task, tasks, handlers>>
varsRisk == <<risk_manager, risk_state_file, today, drawdown_verdict>>
varsApp == <<varsHealth, varsAuth, varsBot, varsRisk>>
varsRest == <<varsScale, varsExport, varsIndex, varsQuery, varsApp>>
varsData == <<varsPipeline, varsScale, varsExport, varsIndex, varsQuery>>

vars == <<varsPipeline, varsScale, varsExport, varsIndex, varsQuery, varsApp>>

Runs == {1, 2}
None == "None"
NaN == <<>>

\* The stages that have not been reached hold nothing.
IdleScale ==
    /\ scaling_method = None
    /\ scaler_features = [r \in Runs |-> None]
    /\ features_scaled = [r \in Runs |-> None]

IdleExport ==
    /\ val_end_date = None
    /\ tickers = None
    /\ exported = None
    /\ validated = None
    /\ export_error = None

\* No query was made, no helper was called.
NoQuery == [query_vector |-> <<>>, top_k |-> 0, ticker_filter |-> None]
NotCalled == [status |-> "none"]

IdleQuery ==
    /\ query = NoQuery
    /\ results = <<>>
    /\ prediction = NotCalled
    /\ anomaly = NotCalled
    /\ ensemble = NotCalled

\* The backend, the bot and the risk manager are not running.
IdleHealth ==
    /\ groq_client = None
    /\ alpaca_trading_available = None
    /\ health_response = None

IdleAuth ==
    /\ now = 0
    /\ users_db = None
    /\ login_attempts = None
    /\ temp_tokens_db = None
    /\ tokens_db = None
    /\ next_temp_token = 0

IdleBot ==
    /\ bot_state = None
    /\ bot_task = None
    /\ tasks = None
    /\ handlers = None

IdleRisk ==
    /\ risk_manager = None
    /\ risk_state_file = None
    /\ today = 0
    /\ drawdown_verdict = None

IdleApp == IdleHealth /\ IdleAuth /\ IdleBot /\ IdleRisk

IdleIndex ==
    /\ window_size = None
    /\ window_stride = None
    /\ min_required_points = None
    /\ windows = None
    /\ distance_metric = None
    /\ collection = None
    /\ indexing_state = None
    /\ index_result = None

Tickers == <<"SPY", "QQQ">>
TickerSet == {Tickers[i] : i \in 1..Len(Tickers)}

(***************************************************************************)
(* Bounds of the model.                                                    *)
(***************************************************************************)
NDates == 4       \* rows of the price matrix of the returns stage
MaxExp == 2       \* prices of the returns stage are 2^0 .. 2^MaxExp
NFeatDates == 5   \* rows of the price matrix of the feature stage
Win == 2          \* length of every rolling window and look-back period
MaxPrice == 3     \* prices of the feature stage are 1..MaxPrice
MaxRet == 1       \* returns of the feature stage are -MaxRet..MaxRet (in 1/RetDen)
RetDen == 4       \* a return k of the feature stage stands for k/RetDen
MacdFast == 1     \* span of the fast EMA of compute_macd

Dates == 1..NDates

Min(a, b) == IF a <= b THEN a ELSE b
Max(a, b) == IF a >= b THEN a ELSE b
Abs(a) == IF a >= 0 THEN a ELSE -a

RECURSIVE Pow(_, _)
Pow(b, e) == IF e = 0 THEN 1 ELSE b * Pow(b, e - 1)

RECURSIVE Insert(_, _)
Insert(x, s) ==
    IF s = <<>> THEN <<x>>
    ELSE IF x <= Head(s) THEN <<x>> \o s
    ELSE <<Head(s)>> \o Insert(x, Tail(s))

RECURSIVE Sorted(_)
Sorted(s) == IF s = <<>> THEN <<>> ELSE Insert(Head(s), Sorted(Tail(s)))

RECURSIVE Flatten(_)
Flatten(ss) == IF ss = <<>> THEN <<>> ELSE Head(ss) \o Flatten(Tail(ss))

\* The values of series s on the dates lo..hi, in date order.
Values(s, lo, hi) == [i \in 1..Max(0, hi - lo + 1) |-> s[lo + i - 1]]

(***************************************************************************)
(* Returns and outlier engine: steps/returns_clip_step.py                  *)
(*                                                                         *)
(* Prices of this stage are powers of two, so that a log return is an      *)
(* integer number of ln 2.  Thresholds and clipped returns are kept        *)
(* multiplied by 100 (the percentile interpolates in hundredths).          *)
(***************************************************************************)
PriceVals == {Pow(2, e) : e \in 0..MaxExp}
BasePriceVals == {1, 2}

lower_pct == 1      \* percent
upper_pct == 99     \* percent

Log2(p) == CHOOSE e \in 0..MaxExp : Pow(2, e) = p

\* returns = np.log(prices / prices.shift(1)).dropna(): the first row is dropped.
LogReturns(p) ==
    [k \in TickerSet |->
        [t \in 2..Len(p[k]) |-> Log2(p[k][t]) - Log2(p[k][t - 1])]]

ReturnDates(p) == 2..Len(p[Tickers[1]])

\* Mutant of TrainDatesOf: the first row counts as a training row whatever its date.
TrainDatesOfFirst(dates, te) == {t \in dates : t <= te \/ \A u \in dates : t <= u}

\* train_mask = returns.index <= train_end_date
TrainDatesOf(dates, te) == {t \in dates : t <= te}

\* Mutant of TrainFlat: the rows of every date pooled, the mask not applied.
TrainFlatNoMask(ret, dates, te) ==
    Flatten([t \in 1..Cardinality(dates) |->
                [i \in 1..Len(Tickers) |-> ret[Tickers[i]][t + 1]]])

\* train_returns.values.flatten(): the training rows of all assets pooled.
TrainFlat(ret, dates, te) ==
    LET tr == TrainDatesOf(dates, te)
        lo == 2
        hi == lo + Cardinality(tr) - 1
    IN  Flatten([t \in 1..Cardinality(tr) |->
                    [i \in 1..Len(Tickers) |-> ret[Tickers[i]][lo + t - 1]]])

\* 100 * np.percentile(a, q), linear interpolation between order statistics.
Percentile100(a, q) ==
    LET s == Sorted(a)
        n == Len(s)
        pos == q * (n - 1)
        lo == pos \div 100
        frac == pos % 100
    IN  IF lo + 1 >= n THEN 100 * s[n]
        ELSE 100 * s[lo + 1] + frac * (s[lo + 2] - s[lo + 1])

\* Mutant of Clip: a value outside the band is moved one step towards it.
ClipTowards(x, lo, hi) == IF x < lo THEN x + 1 ELSE IF x > hi THEN x - 1 ELSE x

Clip(x, lo, hi) == Min(Max(x, lo), hi)

ClipThresholds(ret, dates, te) ==
    LET flat == TrainFlat(ret, dates, te)
    IN  [lower_threshold |-> Percentile100(flat, lower_pct),
         upper_threshold |-> Percentile100(flat, upper_pct)]

\* returns.clip(lower=lower_thr, upper=upper_thr): one pair for every cell.
ClipReturns(ret, thr) ==
    [k \in TickerSet |->
        [t \in DOMAIN ret[k] |->
            Clip(100 * ret[k][t], thr.lower_threshold, thr.upper_threshold)]]

\* What compute_and_clip_returns ends in for a price matrix and a cutoff.
ClipOutcome(p, te) ==
    LET dates == ReturnDates(p)
    IN  IF dates = {} THEN "error"                        \* returns.empty
        ELSE IF TrainDatesOf(dates, te) = {} THEN "error" \* not train_mask.any()
        ELSE IF dates \ TrainDatesOf(dates, te) = {} THEN "error"
             \* test_returns.index.min().date() on an empty index: NaT has no date()
        ELSE "done"

compute_and_clip_returns(run) ==
    /\ pc[run] = "prices"
    /\ LET p == prices[run]
           ret == LogReturns(p)
           out == ClipOutcome(p, train_end_date)
           thr == ClipThresholds(ret, ReturnDates(p), train_end_date)
       IN  /\ pc' = [pc EXCEPT ![run] = IF out = "done" THEN "returns" ELSE "error"]
           /\ thresholds' = [thresholds EXCEPT ![run] = IF out = "done" THEN thr ELSE None]
           /\ returns_clipped' =
                 [returns_clipped EXCEPT ![run] =
                     IF out = "done" THEN ClipReturns(ret, thr) ELSE None]
    /\ UNCHANGED <<prices, train_end_date, altered,
                   features_all, scaler_regime, kmeans_regime>>
    /\ UNCHANGED varsRest

\* Run 2 is handed a price matrix that differs from run 1's in one cell.
AlterPrices(k, d, v) ==
    /\ pc[2] = "prices"
    /\ ~altered
    /\ d \in DOMAIN prices[2][k]
    /\ prices[2][k][d] # v
    /\ prices' = [prices EXCEPT ![2][k][d] = v]
    /\ altered' = TRUE
    /\ UNCHANGED <<train_end_date, returns_clipped, thresholds, pc,
                   features_all, scaler_regime, kmeans_regime>>
    /\ UNCHANGED varsRest

InitClip ==
    /\ \E n \in {1, NDates} :
       \E base \in [TickerSet -> [1..n -> BasePriceVals]] :
            prices = [r \in Runs |-> base]
    /\ train_end_date \in 0..NDates
    /\ returns_clipped = [r \in Runs |-> None]
    /\ thresholds = [r \in Runs |-> None]
    /\ features_all = [r \in Runs |-> None]
    /\ scaler_regime = [r \in Runs |-> None]
    /\ kmeans_regime = [r \in Runs |-> None]
    /\ pc = [r \in Runs |-> "prices"]
    /\ altered = FALSE
    /\ IdleScale /\ IdleExport /\ IdleIndex /\ IdleQuery /\ IdleApp

NextClip ==
    \/ \E run \in Runs : compute_and_clip_returns(run)
    \/ \E k \in TickerSet, d \in Dates, v \in PriceVals : AlterPrices(k, d, v)

SpecClip == InitClip /\ [][NextClip]_vars

\* The two price matrices agree on every date <= te.
PricesAgreeUpTo(te) ==
    \A k \in TickerSet :
        /\ DOMAIN prices[1][k] = DOMAIN prices[2][k]
        /\ \A t \in DOMAIN prices[1][k] : t <= te => prices[1][k][t] = prices[2][k][t]

\* C3: the clipping thresholds depend only on the returns dated <= train_end_date,
\* pooled over all assets: two price matrices that agree up to the cutoff get the
\* same thresholds, and that one pair clips every asset on every date.
C3_ThresholdsTrainOnly ==
    /\ (pc[1] = "returns" /\ pc[2] = "returns" /\ PricesAgreeUpTo(train_end_date))
            => thresholds[1] = thresholds[2]
    /\ \A r \in Runs : pc[r] = "returns" =>
            \A k \in TickerSet : \A t \in ReturnDates(prices[r]) :
                returns_clipped[r][k][t] =
                    Clip(100 * LogReturns(prices[r])[k][t],
                         thresholds[r].lower_threshold, thresholds[r].upper_threshold)

\* Both runs finished, their prices differ after the cutoff only, and a return
\* dated after the cutoff was clipped by the training thresholds.
C3_Witness ==
    /\ pc[1] = "returns" /\ pc[2] = "returns"
    /\ prices[1] # prices[2]
    /\ PricesAgreeUpTo(train_end_date)
    /\ \E k \in TickerSet : \E t \in ReturnDates(prices[2]) :
            /\ t > train_end_date
            /\ returns_clipped[2][k][t] # 100 * LogReturns(prices[2])[k][t]

(***************************************************************************)
(* Indicator generator: steps/feature_engineering_step.py                  *)
(*                                                                         *)
(* Prices of this stage are the integers 1..MaxPrice and a return k stands *)
(* for k/RetDen.  A cell of a series is NaN (the empty tuple) or a tuple   *)
(* of the integers that determine the value exactly:                       *)
(*   - <<v>> for an integer v;                                             *)
(*   - a rolling mean over Win rows by the rolling sum (Win times it);     *)
(*   - a rolling std by VarNum = Win*Sum(x^2) - Sum(x)^2, which is         *)
(*     Win*(Win-1) times its square;                                       *)
(*   - a quotient a / (b + 1e-8) by <<a, b>> (EpsDiv): for the magnitudes  *)
(*     of the model two such quotients are equal exactly when a = 0 in     *)
(*     both or the pairs are equal;                                        *)
(*   - a quotient a / b by the reduced fraction <<a, b>> (Ratio).          *)
(* Every window and look-back period of the source (5 .. 252) is Win.      *)
(***************************************************************************)
RECURSIVE GCD(_, _)
GCD(a, b) == IF b = 0 THEN a ELSE GCD(b, a % b)

Ratio(n, d) == LET g == GCD(Abs(n), Abs(d)) IN <<n \div g, d \div g>>

EpsDiv(a, b) == IF a = 0 THEN <<0, 0>> ELSE <<a, b>>

\* A column of a table as a series of cells.
Cells(col) == [t \in DOMAIN col |-> <<col[t]>>]

Has(s, t) == t \in DOMAIN s /\ s[t] # NaN

\* Series.shift(k)
Shift(s, k) == [t \in DOMAIN s |-> IF t - k \in DOMAIN s THEN s[t - k] ELSE NaN]

\* Series.diff()
Diff(s) ==
    [t \in DOMAIN s |->
        IF Has(s, t) /\ Has(s, t - 1) THEN <<s[t][1] - s[t - 1][1]>> ELSE NaN]

\* A rolling(W) window ending at t is full and free of NaN.
WindowOK(s, W, t) == \A i \in (t - W + 1)..t : Has(s, i)

RECURSIVE SumOver(_, _, _)
SumOver(s, lo, hi) == IF lo > hi THEN 0 ELSE s[lo][1] + SumOver(s, lo + 1, hi)

RECURSIVE SumSqOver(_, _, _)
SumSqOver(s, lo, hi) ==
    IF lo > hi THEN 0 ELSE s[lo][1] * s[lo][1] + SumSqOver(s, lo + 1, hi)

SetMax(S) == CHOOSE x \in S : \A y \in S : y <= x
SetMin(S) == CHOOSE x \in S : \A y \in S : x <= y

\* W * Series.rolling(W).mean(), and Series.rolling(W).sum()
RollingSum(s, W) ==
    [t \in DOMAIN s |-> IF WindowOK(s, W, t) THEN <<SumOver(s, t - W + 1, t)>> ELSE NaN]

\* W * (W - 1) * Series.rolling(W).std() ^ 2
RollingVarNum(s, W) ==
    [t \in DOMAIN s |->
        IF WindowOK(s, W, t)
        THEN <<W * SumSqOver(s, t - W + 1, t)
                - SumOver(s, t - W + 1, t) * SumOver(s, t - W + 1, t)>>
        ELSE NaN]

\* Series.rolling(W).max() and .min()
RollingMax(s, W) ==
    [t \in DOMAIN s |->
        IF WindowOK(s, W, t) THEN <<SetMax({s[i][1] : i \in (t - W + 1)..t})>> ELSE NaN]

RollingMin(s, W) ==
    [t \in DOMAIN s |->
        IF WindowOK(s, W, t) THEN <<SetMin({s[i][1] : i \in (t - W + 1)..t})>> ELSE NaN]

\* rsi = 100 - 100 / (1 + rs), strictly increasing in rs = roll_up / (roll_down + 1e-8):
\* stored as rs.
compute_rsi(p, window) ==
    LET delta == Diff(p)
        up == [t \in DOMAIN p |-> IF delta[t] = NaN THEN NaN ELSE <<Max(delta[t][1], 0)>>]
        down == [t \in DOMAIN p |->
                    IF delta[t] = NaN THEN NaN ELSE <<0 - Min(delta[t][1], 0)>>]
        roll_up == Shift(RollingSum(up, window), 1)
        roll_down == Shift(RollingSum(down, window), 1)
    IN  [t \in DOMAIN p |->
            IF roll_up[t] = NaN \/ roll_down[t] = NaN THEN NaN
            ELSE EpsDiv(roll_up[t][1], roll_down[t][1])]

\* sma and std are shifted; bb_position subtracts them from the unshifted price.
\* upper = sma + 2 std, lower = sma - 2 std and width = 4 std / (sma + 1e-8) are
\* stored as <<Win * sma, VarNum>>.
compute_bollinger_bands(p, window) ==
    LET sma == Shift(RollingSum(p, window), 1)
        std == Shift(RollingVarNum(p, window), 1)
        band == [t \in DOMAIN p |->
                    IF sma[t] = NaN \/ std[t] = NaN THEN NaN ELSE <<sma[t][1], std[t][1]>>]
    IN  [bb_upper |-> band,
         bb_middle |-> sma,
         bb_lower |-> band,
         bb_position |->
            [t \in DOMAIN p |->
                IF sma[t] = NaN \/ std[t] = NaN \/ p[t] = NaN THEN NaN
                ELSE <<window * p[t][1] - sma[t][1], std[t][1]>>],
         bb_width |-> band]

\* stoch = 100 * (prices - low_min) / (high_max - low_min + 1e-8)
compute_stochastic(p, window) ==
    LET low_min == Shift(RollingMin(p, window), 1)
        high_max == Shift(RollingMax(p, window), 1)
    IN  [t \in DOMAIN p |->
            IF low_min[t] = NaN \/ high_max[t] = NaN \/ p[t] = NaN THEN NaN
            ELSE EpsDiv(100 * (p[t][1] - low_min[t][1]), high_max[t][1] - low_min[t][1])]

\* mom = (prices / prices.shift(period) - 1).shift(1)
compute_momentum_features(p, period) ==
    LET naive == [t \in DOMAIN p |->
                    IF Has(p, t) /\ Has(p, t - period)
                    THEN Ratio(p[t][1] - p[t - period][1], p[t - period][1])
                    ELSE NaN]
    IN  Shift(naive, 1)

\* vol = returns.rolling(window).std().shift(1)
compute_volatility_features(r, window) == Shift(RollingVarNum(r, window), 1)

\* time_since_max: the number of rows since is_at_max last changed.
RECURSIVE CumCount(_, _)
CumCount(flag, t) ==
    IF t - 1 \notin DOMAIN flag \/ flag[t] # flag[t - 1] THEN 0
    ELSE CumCount(flag, t - 1) + 1

\* dd = (prices - rolling_max) / (rolling_max + 1e-8), rolling_max shifted, prices not.
compute_risk_features(p, window) ==
    LET rolling_max == Shift(RollingMax(p, window), 1)
        is_at_max == [t \in DOMAIN p |-> IF p[t] = rolling_max[t] THEN 1 ELSE 0]
        time_since_max == [t \in DOMAIN p |-> <<CumCount(is_at_max, t)>>]
    IN  [dd |-> [t \in DOMAIN p |->
                    IF rolling_max[t] = NaN \/ p[t] = NaN THEN NaN
                    ELSE EpsDiv(p[t][1] - rolling_max[t][1], rolling_max[t][1])],
         days_since_high |-> Shift(time_since_max, 1)]

\* The numerator and denominator of a cell: <<v>> is v/1.
CellNum(c) == c[1]
CellDen(c) == IF Len(c) = 1 THEN 1 ELSE c[2]

LCM(a, b) == (a \div GCD(a, b)) * b

\* a - b on cells
CellSub(a, b) ==
    LET l == LCM(CellDen(a), CellDen(b))
    IN  Ratio(CellNum(a) * (l \div CellDen(a)) - CellNum(b) * (l \div CellDen(b)), l)

\* Series.ewm(span=span, adjust=False).mean(): alpha = 2 / (span + 1); the first
\* value that is not NaN starts the average, y[t] = (1 - alpha) * y[t-1] + alpha * x[t].
\* The series averaged here have no NaN after their first value.
RECURSIVE EwmMean(_, _, _)
EwmMean(s, span, t) ==
    IF ~Has(s, t) THEN NaN
    ELSE LET y == IF t - 1 \in DOMAIN s THEN EwmMean(s, span, t - 1) ELSE NaN
         IN  IF y = NaN THEN Ratio(CellNum(s[t]), CellDen(s[t]))
             ELSE LET l == LCM(CellDen(y), CellDen(s[t]))
                  IN  Ratio((span - 1) * CellNum(y) * (l \div CellDen(y))
                                + 2 * CellNum(s[t]) * (l \div CellDen(s[t])),
                            (span + 1) * l)

Ewm(s, span) == [t \in DOMAIN s |-> EwmMean(s, span, t)]

\* The slow and the signal span that go with the fast span (12, 26, 9 in the code).
MacdSlow == 2 * MacdFast + 1
MacdSignal == 2 * MacdFast + 1

compute_macd(p, fast, slow, signal) ==
    LET ema_fast == Shift(Ewm(p, fast), 1)
        ema_slow == Shift(Ewm(p, slow), 1)
        macd_line == [t \in DOMAIN p |->
                        IF ema_fast[t] = NaN \/ ema_slow[t] = NaN THEN NaN
                        ELSE CellSub(ema_fast[t], ema_slow[t])]
        signal_line == Shift(Ewm(macd_line, signal), 1)
    IN  [macd |-> macd_line,
         signal |-> signal_line,
         histogram |-> [t \in DOMAIN p |->
                          IF macd_line[t] = NaN \/ signal_line[t] = NaN THEN NaN
                          ELSE CellSub(macd_line[t], signal_line[t])]]

\* The columns feature_engineering computes for one asset, by name ({ticker}_{name}).
AssetFeatures(p, r) ==
    LET bb == compute_bollinger_bands(p, Win)
        risk == compute_risk_features(p, Win)
        macd == compute_macd(p, MacdFast, MacdSlow, MacdSignal)
    IN  [ret_1d |-> r,
         rsi14 |-> compute_rsi(p, Win),
         macd |-> macd.macd,
         macd_signal |-> macd.signal,
         macd_hist |-> macd.histogram,
         bb_upper |-> bb.bb_upper,
         bb_middle |-> bb.bb_middle,
         bb_lower |-> bb.bb_lower,
         bb_position |-> bb.bb_position,
         bb_width |-> bb.bb_width,
         stochastic |-> compute_stochastic(p, Win),
         mom_20 |-> compute_momentum_features(p, Win),
         vol_20 |-> compute_volatility_features(r, Win),
         dd_20 |-> risk.dd,
         days_since_high_60 |-> risk.days_since_high]

AssetFeatureNames ==
    {"ret_1d", "rsi14", "macd", "macd_signal", "macd_hist", "bb_upper", "bb_middle", "bb_lower", "bb_position", "bb_width",
     "stochastic", "mom_20", "vol_20", "dd_20", "days_since_high_60"}

\* ew_ret = returns_clipped.mean(axis=1), kept as the sum over the assets.
EwRet(rets, idx) ==
    [t \in idx |-> <<SumOver([i \in 1..Len(Tickers) |-> <<rets[Tickers[i]][t]>>],
                             1, Len(Tickers))>>]

\* ew_value = (1 + ew_ret).cumprod(); with D = Len(Tickers) * RetDen the value at the
\* i-th row is EwValue / D^i.
RECURSIVE EwValue(_, _)
EwValue(ew_ret, t) ==
    IF t \notin DOMAIN ew_ret THEN 1
    ELSE (Len(Tickers) * RetDen + ew_ret[t][1]) * EwValue(ew_ret, t - 1)

\* ew_value.rolling(window).max().shift(1) at t, in the scale of ew_value at t.
EwRollingMax(ew_ret, window, t) ==
    IF t - window \notin DOMAIN ew_ret THEN NaN
    ELSE <<SetMax({EwValue(ew_ret, i) * Pow(Len(Tickers) * RetDen, t - i) :
                      i \in (t - window)..(t - 1)})>>

\* The global portfolio columns, by name (ew_{name}).
GlobalFeatures(rets, idx) ==
    LET ew_ret == EwRet(rets, idx)
        sum_ret == Shift(RollingSum(ew_ret, Win), 1)
        var_ret == Shift(RollingVarNum(ew_ret, Win), 1)
    IN  [ret_1d |-> ew_ret,
         value |-> [t \in idx |-> <<EwValue(ew_ret, t)>>],
         vol_20 |-> var_ret,
         ret_20 |-> sum_ret,
         dd_60 |->
            [t \in idx |->
                LET rolling_max == EwRollingMax(ew_ret, Win, t)
                IN  IF rolling_max = NaN THEN NaN
                    ELSE EpsDiv(EwValue(ew_ret, t) - rolling_max[1], rolling_max[1])],
         sharpe_20 |->
            [t \in idx |->
                IF sum_ret[t] = NaN \/ var_ret[t] = NaN THEN NaN
                ELSE EpsDiv(sum_ret[t][1], var_ret[t][1])]]

GlobalFeatureNames == {"ret_1d", "value", "vol_20", "ret_20", "dd_60", "sharpe_20"}

RECURSIVE SortedDates(_)
SortedDates(S) ==
    IF S = {} THEN <<>> ELSE <<SetMin(S)>> \o SortedDates(S \ {SetMin(S)})

\* clust_features = concat([ew_ret_20, ew_vol_20, ew_dd_60]).dropna()
ClustDates(g, idx) ==
    {t \in idx : g.ret_20[t] # NaN /\ g.vol_20[t] # NaN /\ g.dd_60[t] # NaN}

ClustRow(g, t) == g.ret_20[t] \o g.vol_20[t] \o g.dd_60[t]

\* The rows of the clustering table on the dates of S, in date order (.values).
ClustValues(g, S) ==
    LET ds == SortedDates(S) IN [i \in 1..Len(ds) |-> ClustRow(g, ds[i])]

\* Mutant of RegimeTrainDates: the regime model is fit on every clustering row.
RegimeTrainDatesAll(dates, te) == dates

\* train_mask = clust_features.index <= train_end_date
RegimeTrainDates(dates, te) == {t \in dates : t <= te}

\* sklearn estimators are deterministic functions of the matrix they are fit on
\* (KMeans with random_state=42, n_init=20): a fitted estimator is the record of
\* that matrix, and a transformed matrix the record of the scaler and its argument.
StandardScalerFit(X) == [estimator |-> "StandardScaler", fitted_on |-> X]
ScalerTransform(scaler, X) == [scaler |-> scaler, X |-> X]
KMeansFit(X) == [estimator |-> "KMeans", n_clusters |-> 3, fitted_on |-> X]

\* features_all before dropna: every column on the common index.  The regime
\* cell of a date is the clustering row that kmeans.predict labels.
FullTable(p, rets, idx, g) ==
    LET asset == [k \in TickerSet |->
                    AssetFeatures(Cells([t \in idx |-> p[k][t]]),
                                  Cells([t \in idx |-> rets[k][t]]))]
        clust == ClustDates(g, idx)
    IN  [c \in (TickerSet \X AssetFeatureNames) \cup ({"ew"} \X GlobalFeatureNames)
                    \cup {<<"regime", "label">>} |->
            IF c[1] \in TickerSet THEN asset[c[1]][c[2]]
            ELSE IF c[1] = "ew" THEN g[c[2]]
            ELSE [t \in idx |-> IF t \in clust THEN ClustRow(g, t) ELSE NaN]]

\* features_all.dropna(): a row with a NaN in any column is dropped.
DropNa(table, idx) ==
    LET keep == {t \in idx : \A c \in DOMAIN table : table[c][t] # NaN}
    IN  [c \in DOMAIN table |-> [t \in keep |-> table[c][t]]]

TableIndex(table) == DOMAIN table[<<"regime", "label">>]

CommonIdx(p, rets) == (DOMAIN p[Tickers[1]]) \cap (DOMAIN rets[Tickers[1]])

\* What feature_engineering returns, or raises (ok = FALSE): empty tables after
\* alignment, no training row for the regime clustering, or no row left by dropna.
FeatureEngineering(p, rets, te) ==
    LET idx == CommonIdx(p, rets)
        g == GlobalFeatures(rets, idx)
        train == RegimeTrainDates(ClustDates(g, idx), te)
        table == DropNa(FullTable(p, rets, idx, g), idx)
        scaler == StandardScalerFit(ClustValues(g, train))
    IN  [ok |-> idx # {} /\ train # {} /\ TableIndex(table) # {},
         features_all |-> table,
         scaler_regime |-> scaler,
         kmeans_regime |-> KMeansFit(ScalerTransform(scaler, ClustValues(g, train)))]

feature_engineering(run) ==
    /\ pc[run] = "returns"
    /\ \E out \in {FeatureEngineering(prices[run], returns_clipped[run], train_end_date)} :
        /\ pc' = [pc EXCEPT ![run] = IF out.ok THEN "features" ELSE "error"]
        /\ features_all' =
              [features_all EXCEPT ![run] = IF out.ok THEN out.features_all ELSE None]
        /\ scaler_regime' =
              [scaler_regime EXCEPT ![run] = IF out.ok THEN out.scaler_regime ELSE None]
        /\ kmeans_regime' =
              [kmeans_regime EXCEPT ![run] = IF out.ok THEN out.kmeans_regime ELSE None]
    /\ UNCHANGED <<prices, train_end_date, returns_clipped, thresholds, altered>>
    /\ UNCHANGED varsRest

\* Run 2 is handed prices or returns that differ from run 1's in one cell.
AlterFeaturePrices(k, d, v) ==
    /\ pc[2] = "returns"
    /\ ~altered
    /\ prices[2][k][d] # v
    /\ prices' = [prices EXCEPT ![2][k][d] = v]
    /\ altered' = TRUE
    /\ UNCHANGED <<train_end_date, returns_clipped, thresholds, pc,
                   features_all, scaler_regime, kmeans_regime>>
    /\ UNCHANGED varsRest

AlterReturns(k, d, v) ==
    /\ pc[2] = "returns"
    /\ ~altered
    /\ returns_clipped[2][k][d] # v
    /\ returns_clipped' = [returns_clipped EXCEPT ![2][k][d] = v]
    /\ altered' = TRUE
    /\ UNCHANGED <<prices, train_end_date, thresholds, pc,
                   features_all, scaler_regime, kmeans_regime>>
    /\ UNCHANGED varsRest

BaseFeatPrices == {1, 2}
BaseFeatRets == {0, 1}

\* Both runs start from the same tables, every asset with the same series: either
\* the prices vary and the returns are flat, or the returns vary and the prices are
\* flat (no column reads both the prices and the returns).
FeatInputs ==
    {[p |-> ps, r |-> [t \in 2..NFeatDates |-> 0]] :
        ps \in [1..NFeatDates -> BaseFeatPrices]}
    \cup {[p |-> [t \in 1..NFeatDates |-> 1], r |-> rs] :
        rs \in [2..NFeatDates -> BaseFeatRets]}

InitFeat ==
    /\ \E in \in FeatInputs :
        /\ prices = [r \in Runs |-> [k \in TickerSet |-> in.p]]
        /\ returns_clipped = [r \in Runs |-> [k \in TickerSet |-> in.r]]
    /\ train_end_date \in 0..NFeatDates
    /\ thresholds = [r \in Runs |-> None]
    /\ features_all = [r \in Runs |-> None]
    /\ scaler_regime = [r \in Runs |-> None]
    /\ kmeans_regime = [r \in Runs |-> None]
    /\ pc = [r \in Runs |-> "returns"]
    /\ altered = FALSE
    /\ IdleScale /\ IdleExport /\ IdleIndex /\ IdleQuery /\ IdleApp

\* The assets start alike, so altering the first one stands for altering any.
NextFeat ==
    \/ \E run \in Runs : feature_engineering(run)
    \/ \E d \in 1..NFeatDates, v \in 1..MaxPrice : AlterFeaturePrices(Tickers[1], d, v)
    \/ \E d \in 2..NFeatDates, v \in (0 - MaxRet)..MaxRet : AlterReturns(Tickers[1], d, v)

SpecFeat == InitFeat /\ [][NextFeat]_vars

\* The inputs of the two runs agree on every date <= d.
InputsAgreeUpTo(d) ==
    \A k \in TickerSet :
        /\ \A t \in DOMAIN prices[1][k] : t <= d => prices[1][k][t] = prices[2][k][t]
        /\ \A t \in DOMAIN returns_clipped[1][k] :
                t <= d => returns_clipped[1][k][t] = returns_clipped[2][k][t]

BothFeatures == pc[1] = "features" /\ pc[2] = "features"

\* The per-asset indicator columns (the basic return column is not an indicator).
IndicatorNames == AssetFeatureNames \ {"ret_1d"}

\* C1: lag invariant: the value an indicator column stores at date t is a function
\* of the prices and returns dated <= t-1 only: two inputs that agree before t give
\* the same stored value at t, whatever they hold at t and later.
C1_LagInvariant ==
    BothFeatures =>
        \A t \in TableIndex(features_all[1]) \cap TableIndex(features_all[2]) :
            InputsAgreeUpTo(t - 1) =>
                \A k \in TickerSet : \A n \in IndicatorNames :
                    features_all[1][<<k, n>>][t] = features_all[2][<<k, n>>][t]

\* C2: the feature table carries no same-day return: no {ticker}_ret_1d column, no
\* ew_ret_1d column and no ew_value column.
C2_NoSameDayReturn ==
    \A r \in Runs : pc[r] = "features" =>
        /\ \A k \in TickerSet : <<k, "ret_1d">> \notin DOMAIN features_all[r]
        /\ <<"ew", "ret_1d">> \notin DOMAIN features_all[r]
        /\ <<"ew", "value">> \notin DOMAIN features_all[r]

\* C5: the regime standardizer and k-means model are fit on the clustering rows
\* dated <= train_end_date only: inputs that agree up to the cutoff give the same
\* fitted models, and the fit has exactly one row per such date, while the dates
\* after the cutoff are labelled too.
C5_RegimeFitTrainOnly ==
    /\ (BothFeatures /\ InputsAgreeUpTo(train_end_date)) =>
            /\ scaler_regime[1] = scaler_regime[2]
            /\ kmeans_regime[1] = kmeans_regime[2]
    /\ \A r \in Runs : pc[r] = "features" =>
            LET idx == CommonIdx(prices[r], returns_clipped[r])
                clust == ClustDates(GlobalFeatures(returns_clipped[r], idx), idx)
            IN  /\ Len(scaler_regime[r].fitted_on)
                        = Cardinality({t \in clust : t <= train_end_date})
                /\ kmeans_regime[r].fitted_on.scaler = scaler_regime[r]
                /\ kmeans_regime[r].fitted_on.X = scaler_regime[r].fitted_on
                /\ \A t \in TableIndex(features_all[r]) : t \in clust

\* Both runs finished on inputs that differ after the cutoff only, and a date
\* after the cutoff carries a regime cell that differs between the runs.
C5_Witness ==
    /\ BothFeatures
    /\ InputsAgreeUpTo(train_end_date)
    /\ \E t \in TableIndex(features_all[1]) \cap TableIndex(features_all[2]) :
            /\ t > train_end_date
            /\ features_all[1][<<"regime", "label">>][t]
                    # features_all[2][<<"regime", "label">>][t]

(***************************************************************************)
(* Stage: scale_features (src/steps/scale_features_step.py).               *)
(*                                                                         *)
(* The feature matrix of this stage is a float matrix: a cell is <<v>>     *)
(* (finite), NaN, or Inf.  The fitted parameters are kept exactly: the     *)
(* standard scaler by the mean and the variance of each column (its scale  *)
(* is the square root of the variance), the robust scaler by 100 * median  *)
(* and 100 * IQR, the min-max scaler by the column minimum and maximum.    *)
(* A standardized cell (x - mean) / sqrt(var) is the pair of the quotient  *)
(* x - mean and the variance.                                              *)
(***************************************************************************)
NScaleDates == 3   \* rows of the feature matrix handed to scale_features
MaxFeat == 2       \* finite cells of that matrix are 0..MaxFeat

Inf == <<1, 0>>
ScaleCols == {"f1", "f2"}
BaseScaleVals == {0, 1}
ScalingMethods == {"standard", "robust", "minmax", "quantile"}

RECURSIVE SeqSum(_)
SeqSum(s) == IF s = <<>> THEN 0 ELSE Head(s) + SeqSum(Tail(s))

RECURSIVE SeqSumSq(_)
SeqSumSq(s) == IF s = <<>> THEN 0 ELSE Head(s) * Head(s) + SeqSumSq(Tail(s))

\* The dates of a table (every column has the index of the table).
IndexOf(F) == DOMAIN F[CHOOSE c \in DOMAIN F : TRUE]

\* train_mask = features_all.index <= train_end_date
ScaleTrainMask(dates, te) == {d \in dates : d <= te}

\* Mutant of XTrainDates: the scaler is fit on every row.
XTrainDatesAll(dates, te) == dates

\* X_train = features_all.loc[train_mask]
XTrainDates(dates, te) == ScaleTrainMask(dates, te)

\* The values of column c on the rows S, in date order; the fit of a scaler
\* disregards the cells that are not finite numbers.
ColumnValues(F, c, S) ==
    LET sd == SortedDates({d \in S : Len(F[c][d]) = 1})
    IN  [i \in 1..Len(sd) |-> F[c][sd[i]][1]]

\* sklearn's _handle_zeros_in_scale: a zero scale is replaced by one.
HandleZeros(s, one) == IF s = 0 THEN one ELSE s

\* scaler.fit(X_train.values), column by column
FitColumn(method, x) ==
    LET n == Len(x) IN
    CASE method = "standard" ->
            [mean |-> Ratio(SeqSum(x), n),
             var |-> Ratio(n * SeqSumSq(x) - SeqSum(x) * SeqSum(x), n * n)]
      [] method = "robust" ->
            [center |-> Percentile100(x, 50),
             scale |-> Percentile100(x, 75) - Percentile100(x, 25)]
      [] method = "minmax" ->
            [data_min |-> Percentile100(x, 0) \div 100,
             data_max |-> Percentile100(x, 100) \div 100]

ScalerFit(method, F, S) ==
    [estimator |-> method,
     params |-> [c \in DOMAIN F |-> FitColumn(method, ColumnValues(F, c, S))]]

\* scaler.transform of one cell; NaN passes through
TransformCell(method, prm, cell) ==
    IF cell = NaN THEN NaN
    ELSE LET x == cell[1] IN
         CASE method = "standard" ->
                Ratio(x * prm.mean[2] - prm.mean[1], prm.mean[2])
                    \o (IF prm.var[1] = 0 THEN <<1, 1>> ELSE prm.var)
           [] method = "robust" ->
                Ratio(100 * x - prm.center, HandleZeros(prm.scale, 100))
           [] method = "minmax" ->
                Ratio(x - prm.data_min, HandleZeros(prm.data_max - prm.data_min, 1))

\* scaler.transform(features_all.values), with the index and columns of the input
ScalerTransformAll(sc, F) ==
    [c \in DOMAIN F |->
        [d \in DOMAIN F[c] |-> TransformCell(sc.estimator, sc.params[c], F[c][d])]]

\* The scaler of a run that raised before line 186: nothing was fitted.
Unfitted == [estimator |-> None, params |-> None]

HasCell(F, S, cell) == \E c \in DOMAIN F : \E d \in S : F[c][d] = cell

\* scale_features: what it raises or returns.  The scaler is the local object of
\* line 186, which exists from the fit on, whether or not a later line raises.
ScaleFeatures(F, te, method) ==
    LET dates == IndexOf(F)
        train == ScaleTrainMask(dates, te)
        test == dates \ train
        fit == ScalerFit(method, F, XTrainDates(dates, te))
        failed == [status |-> "error", scaler |-> Unfitted, features_scaled |-> None]
    IN  IF dates = {} THEN failed                  \* line 54: NaT.date()
        ELSE IF train = {} THEN failed              \* line 64: ValueError
        ELSE IF test = {} THEN failed               \* line 71: NaT.date()
        ELSE IF HasCell(F, train, NaN) THEN failed  \* line 87: ValueError
        ELSE IF HasCell(F, train, Inf) THEN failed  \* line 95: ValueError
        ELSE IF method \notin {"standard", "robust", "minmax"}
            THEN failed                             \* line 182: ValueError
        ELSE IF HasCell(F, test, Inf)               \* line 196: transform rejects inf
            THEN [failed EXCEPT !.scaler = fit]
        ELSE IF method # "standard"                 \* line 276: train_means is unbound
            THEN [failed EXCEPT !.scaler = fit]
        ELSE [status |-> "ok", scaler |-> fit,
              features_scaled |-> ScalerTransformAll(fit, F)]

scale_features(run) ==
    /\ pc[run] = "features"
    /\ \E out \in {ScaleFeatures(features_all[run], train_end_date, scaling_method)} :
        /\ pc' = [pc EXCEPT ![run] = IF out.status = "ok" THEN "scaled" ELSE "error"]
        /\ scaler_features' = [scaler_features EXCEPT ![run] = out.scaler]
        /\ features_scaled' = [features_scaled EXCEPT ![run] = out.features_scaled]
    /\ UNCHANGED <<prices, train_end_date, returns_clipped, thresholds,
                   features_all, scaler_regime, kmeans_regime, altered>>
    /\ UNCHANGED <<scaling_method, varsExport, varsIndex, varsQuery, varsApp>>

\* Run 2 is handed a feature matrix that differs from run 1's in one cell.
AlterFeatureCell(c, d, cell) ==
    /\ pc[2] = "features"
    /\ ~altered
    /\ d \in IndexOf(features_all[2])
    /\ features_all[2][c][d] # cell
    /\ features_all' = [features_all EXCEPT ![2][c][d] = cell]
    /\ altered' = TRUE
    /\ UNCHANGED <<prices, train_end_date, returns_clipped, thresholds,
                   scaler_regime, kmeans_regime, pc>>
    /\ UNCHANGED varsRest

\* Run 2 is handed run 1's matrix with one more row after the last one.
AppendFeatureRow(row) ==
    /\ pc[2] = "features"
    /\ ~altered
    /\ LET d == Cardinality(IndexOf(features_all[2])) + 1
       IN  features_all' =
              [features_all EXCEPT ![2] =
                  [c \in ScaleCols |->
                      [t \in 1..d |-> IF t = d THEN <<row[c]>> ELSE features_all[2][c][t]]]]
    /\ altered' = TRUE
    /\ UNCHANGED <<prices, train_end_date, returns_clipped, thresholds,
                   scaler_regime, kmeans_regime, pc>>
    /\ UNCHANGED varsRest

InitScale ==
    /\ \E base \in [ScaleCols -> [1..NScaleDates -> {<<v>> : v \in BaseScaleVals}]] :
            features_all = [r \in Runs |-> base]
    /\ train_end_date \in 0..NScaleDates
    /\ scaling_method \in ScalingMethods
    /\ prices = [r \in Runs |-> None]
    /\ returns_clipped = [r \in Runs |-> None]
    /\ thresholds = [r \in Runs |-> None]
    /\ scaler_regime = [r \in Runs |-> None]
    /\ kmeans_regime = [r \in Runs |-> None]
    /\ scaler_features = [r \in Runs |-> None]
    /\ features_scaled = [r \in Runs |-> None]
    /\ pc = [r \in Runs |-> "features"]
    /\ altered = FALSE
    /\ IdleExport /\ IdleIndex /\ IdleQuery /\ IdleApp

NextScale ==
    \/ \E run \in Runs : scale_features(run)
    \/ \E c \in ScaleCols, d \in 1..NScaleDates :
       \E cell \in {<<v>> : v \in 0..MaxFeat} \cup {NaN, Inf} : AlterFeatureCell(c, d, cell)
    \/ \E row \in [ScaleCols -> 0..MaxFeat] : AppendFeatureRow(row)

SpecScale == InitScale /\ [][NextScale]_vars

\* Run r went through scale_features and reached the fit of line 186.
Fitted(r) == pc[r] \in {"scaled", "error"} /\ scaler_features[r].estimator # None

\* The feature matrices of the two runs have the same rows dated <= d.
RowsAgreeUpTo(d) ==
    LET F == features_all[1]
        G == features_all[2]
    IN  /\ {t \in IndexOf(F) : t <= d} = {t \in IndexOf(G) : t <= d}
        /\ \A c \in ScaleCols : \A t \in IndexOf(F) : t <= d => F[c][t] = G[c][t]

NExpDates == 4     \* dates of the tables handed to export_for_models

ExportCols == {<<"SPY", "rsi14">>, <<"QQQ", "rsi14">>, <<"ew", "vol_20">>}
ExportTickerLists == {<<>>, <<"SPY">>, <<"SPY", "QQQ">>, <<"SPY", "IWM">>}
Splits == {"train", "val", "test"}

\* frame.loc[mask]: the rows at the positions where the boolean mask holds
RECURSIVE BoolSelect(_, _)
BoolSelect(idx, mask) ==
    IF idx = <<>> THEN <<>>
    ELSE (IF Head(mask) THEN <<Head(idx)>> ELSE <<>>) \o BoolSelect(Tail(idx), Tail(mask))

\* Mutant of Loc: the rows are taken by position, not by label.
ILoc(rindex, labels) == SubSeq(SortedDates(rindex), 1, Len(labels))

\* frame.loc[labels]: the rows of the labels, in the order of the labels
Loc(rindex, labels) == labels

\* frame.loc[labels] raises KeyError when a label is missing
LocRaises(rindex, labels) == \E i \in 1..Len(labels) : labels[i] \notin rindex

\* train_mask, val_mask, test_mask over the index of features_scaled
SplitMask(idx, te, ve) ==
    [train |-> [i \in 1..Len(idx) |-> idx[i] <= te],
     val |-> [i \in 1..Len(idx) |-> idx[i] > te /\ idx[i] <= ve],
     test |-> [i \in 1..Len(idx) |-> idx[i] > ve]]

\* The columns create_per_asset_features keeps for one asset.
AssetColumns(F, asset) ==
    {c \in DOMAIN F : c[1] = asset \/ c[1] \in {"ew", "avg", "regime"}}

create_per_asset_features(F, rets, asset) ==
    LET idx == SortedDates(IndexOf(F))
    IN  [X |-> [index |-> idx, columns |-> AssetColumns(F, asset)],
         y |-> [index |-> Loc(DOMAIN rets[asset], idx), columns |-> {asset}]]

\* The files of one view: the three splits of X and y.
SplitFiles(view, X, y, mask) ==
    [key \in {<<view, s>> : s \in Splits} |->
        [X |-> [index |-> BoolSelect(X.index, mask[key[2]]), columns |-> X.columns],
         y |-> [index |-> BoolSelect(y.index, mask[key[2]]), columns |-> y.columns]]]

\* The asserts of lines 135-139, in their order: whether they all pass.
AssertsPass(files, view) ==
    /\ \A s \in Splits :
            Len(files[<<view, s>>].X.index) = Len(files[<<view, s>>].y.index)
    /\ \A s \in {"train", "val"} :
            files[<<view, s>>].X.index = files[<<view, s>>].y.index

AssertsRun(view) ==
    {<<view, s, "length">> : s \in Splits} \cup {<<view, s, "index">> : s \in {"train", "val"}}

\* The per-asset loop from ticker number i on; acc holds the files written and
\* the asserts run so far.
RECURSIVE PerAssetExports(_, _, _, _, _, _)
PerAssetExports(F, rets, mask, tk, i, acc) ==
    IF i > Len(tk) THEN acc
    ELSE LET asset == tk[i]
             idx == SortedDates(IndexOf(F))
         IN  IF asset \notin DOMAIN rets \/ LocRaises(DOMAIN rets[asset], idx)
             THEN [acc EXCEPT !.status = "error", !.error = "KeyError"]    \* line 59
             ELSE
             LET Xy == create_per_asset_features(F, rets, asset)
                 files == SplitFiles(asset, Xy.X, Xy.y, mask)
                 checked == [acc EXCEPT !.validated = @ \cup AssertsRun(asset)]
             IN  IF ~AssertsPass(files, asset)
                 THEN [checked EXCEPT !.status = "error",
                                      !.error = "AssertionError"]        \* lines 135-139
                 ELSE IF \E s \in Splits : files[<<asset, s>>].X.index = <<>>
                 THEN [checked EXCEPT !.status = "error",          \* lines 142-144: NaT.date()
                                      !.error = "ValueError: NaTType does not support date"]
                 ELSE PerAssetExports(F, rets, mask, tk, i + 1,
                        [checked EXCEPT !.exported = files @@ @])

\* export_for_models: the files it has written and the asserts it has run when it
\* returns or raises.
ExportForModels(F, rets, P, te, ve, tk) ==
    LET idx == SortedDates(IndexOf(F))
        mask == SplitMask(idx, te, ve)
        empty == [key \in {} |-> {}]
        assets == PerAssetExports(F, rets, mask, tk, 1,
                    [status |-> "ok", exported |-> empty, validated |-> {},
                     error |-> None])
        anyticker == CHOOSE k \in DOMAIN rets : TRUE
        global == SplitFiles("global",
                    [index |-> idx, columns |-> DOMAIN F],
                    [index |-> Loc(DOMAIN rets[anyticker], idx), columns |-> DOMAIN rets],
                    mask)
        written == [assets EXCEPT !.exported = global @@ @]
    IN  IF assets.status = "error" THEN assets
        ELSE IF LocRaises(DOMAIN rets[anyticker], idx)
            THEN [assets EXCEPT !.status = "error", !.error = "KeyError"]     \* line 222
        ELSE IF LocRaises(DOMAIN P[anyticker], idx)
            THEN [written EXCEPT !.status = "error", !.error = "KeyError"]    \* line 246
        ELSE IF idx = <<>>
            THEN [written EXCEPT !.status = "error",          \* line 293: NaT.date()
                             !.error = "ValueError: NaTType does not support date"]
        ELSE written

export_for_models(run) ==
    /\ pc[run] = "scaled"
    /\ \E out \in {ExportForModels(features_scaled[run], returns_clipped[run], prices[run],
                                    train_end_date, val_end_date, tickers)} :
        /\ pc' = [pc EXCEPT ![run] = IF out.status = "ok" THEN "exported" ELSE "error"]
        /\ exported' = out.exported
        /\ validated' = out.validated
        /\ export_error' = out.error
    /\ UNCHANGED <<prices, train_end_date, returns_clipped, thresholds,
                   features_all, scaler_regime, kmeans_regime, altered>>
    /\ UNCHANGED <<varsScale, val_end_date, tickers, varsIndex, varsQuery, varsApp>>

\* The features start at any date (warm-up rows are dropped) and may miss dates;
\* the returns start at the first or the second date.
InitExport ==
    /\ \E S \in (SUBSET (1..NExpDates)) \ {{}} :
            features_scaled = [r \in Runs |->
                IF r = 1 THEN [c \in ExportCols |-> [d \in S |-> <<0>>]] ELSE None]
    /\ \E first \in {1, 2} :
            returns_clipped = [r \in Runs |->
                IF r = 1 THEN [k \in TickerSet |-> [d \in first..NExpDates |-> 0]] ELSE None]
    /\ prices = [r \in Runs |->
            IF r = 1 THEN [k \in TickerSet |-> [d \in 1..NExpDates |-> 1]] ELSE None]
    /\ train_end_date \in 0..NExpDates
    /\ val_end_date \in 0..NExpDates
    /\ tickers \in ExportTickerLists
    /\ exported = [key \in {} |-> {}]
    /\ validated = {}
    /\ export_error = None
    /\ thresholds = [r \in Runs |-> None]
    /\ features_all = [r \in Runs |-> None]
    /\ scaler_regime = [r \in Runs |-> None]
    /\ kmeans_regime = [r \in Runs |-> None]
    /\ scaling_method = "standard"
    /\ scaler_features = [r \in Runs |-> None]
    /\ pc = [r \in Runs |-> IF r = 1 THEN "scaled" ELSE "idle"]
    /\ altered = FALSE
    /\ IdleIndex /\ IdleQuery /\ IdleApp

NextExport == export_for_models(1)

SpecExport == InitExport /\ [][NextExport]_vars

\* The dates of a written index.
DatesOf(index) == {index[i] : i \in 1..Len(index)}

\* C6: partition completeness and disjointness: whatever cutoff dates the export
\* is given, every row date of the exported table lies in exactly one of the
\* written train, validation and test splits, and the three sizes add up to the
\* number of rows.
C6_PartitionExact ==
    pc[1] = "exported" =>
        LET rows == IndexOf(features_scaled[1])
            part(s) == exported[<<"global", s>>].X.index
        IN  /\ \A d \in rows : Cardinality({s \in Splits : d \in DatesOf(part(s))}) = 1
            /\ Len(part("train")) + Len(part("val")) + Len(part("test")) = Cardinality(rows)

C8_EverySplitValidated ==
    pc[1] = "exported" =>
        \A key \in DOMAIN exported :
            /\ <<key[1], key[2], "length">> \in validated
            /\ <<key[1], key[2], "index">> \in validated

(***************************************************************************)
(* Stage: index_features_in_qdrant (src/steps/qdrant_index_step.py).       *)
(*                                                                         *)
(* The Qdrant collection is kept by its vector size, its distance and its  *)
(* points, a point by its id, its vector and its payload (the metadata of  *)
(* the window).  The indexing runs of run 1 follow one another             *)
(* on a feature table that grows, or is rebuilt with other columns,        *)
(* between them.  In these runs no cell of the table is NaN, so that no     *)
(* window is dropped by line 151; the windows themselves are checked on    *)
(* tables with a NaN cell under SpecWindows.                               *)
(***************************************************************************)
NIndexRows == 4    \* the feature table of the index stage grows to this many rows
MaxWindow == 3     \* window_size is 2..MaxWindow

stride == 1
IndexColSets == {{"f1"}, {"f1", "f2"}}
IndexTickerLists == {<<"SPY">>, <<"SPY", "QQQ">>}
Absent == [exists |-> FALSE]

\* The columns of a feature table of the index stage, in their order.
IndexColumns == <<"f1", "f2">>
ColumnSeq(F) == SelectSeq(IndexColumns, LAMBDA c : c \in DOMAIN F)

\* len(vector): the flattened window
VectorDim(F, W) == W * Cardinality(DOMAIN F)

\* non_nan_count = np.sum(~np.isnan(window)) of the window of rows i+1 .. i+W
NonNanCount(F, dates, i, W) ==
    Cardinality({cj \in (DOMAIN F) \X (1..W) : F[cj[1]][dates[i + cj[2]]] # NaN})

\* np.nan_to_num(window, nan=0.0) of one cell (a cell of a vector is <<v>>)
\* Mutant of NanToNum: the cell is kept as it is.
NanToNumKeep(cell) == cell

NanToNum(cell) == IF cell = NaN THEN <<0>> ELSE cell

\* Mutant of WindowStarts: the last start offset is left out.
WindowStartsShort(n, W, s) == {i \in 0..(n - W - 1) : i % s = 0}

\* range(0, n_dates - window_size + 1, stride)
WindowStarts(n, W, s) == {i \in 0..(n - W) : i % s = 0}

\* window_clean.flatten(): row after row, the columns in their order
WindowVector(F, dates, i, W) ==
    LET cols == ColumnSeq(F)
        nf == Len(cols)
    IN  [q \in 1..(W * nf) |->
            NanToNum(F[cols[((q - 1) % nf) + 1]][dates[i + ((q - 1) \div nf) + 1]])]

\* returns_clipped[ticker].iloc[window_start_idx:window_end_idx]: the dates of
\* the rows at the positions i+1 .. i+W of the returns (fewer if they end before)
ReturnsWindow(r, dates, i, W) ==
    LET rdates == SortedDates(DOMAIN r)
    IN  SubSeq(rdates, i + 1, Min(i + W, Len(rdates)))

\* The return statistics of a window: the sum and the mean of the rows taken
\* (std, Sharpe and max drawdown are computed from the same rows).
WindowReturns(r, rows) ==
    IF rows = <<>> THEN NaN
    ELSE LET vals == [j \in 1..Len(rows) |-> r[rows[j]]]
         IN  <<[rows |-> rows, cumulative |-> SeqSum(vals),
                mean |-> Ratio(SeqSum(vals), Len(vals))]>>

\* The windows of one ticker, in the order of the loop of line 141: the start
\* offsets 0, stride, 2 * stride, ...; a window with too few non-NaN cells is
\* skipped (line 151) and takes no window_idx.
TickerWindows(F, rets, ticker, W, s, mrp) ==
    LET dates == SortedDates(IndexOf(F))
        nf == Cardinality(DOMAIN F)
        starts == WindowStarts(Len(dates), W, s)
        order == SelectSeq(SortedDates(starts),
                    LAMBDA i : ~(NonNanCount(F, dates, i, W) < mrp * nf))
    IN  [j \in 1..Len(order) |->
            [vector |-> WindowVector(F, dates, order[j], W),
             meta |->
                [ticker |-> ticker,
                 date_start |-> dates[order[j] + 1],
                 date_end |-> dates[order[j] + W],
                 window_idx |-> j - 1,
                 n_features |-> nf,
                 vector_dim |-> VectorDim(F, W),
                 returns |-> IF ticker \in DOMAIN rets
                             THEN WindowReturns(rets[ticker],
                                    ReturnsWindow(rets[ticker], dates, order[j], W))
                             ELSE NaN]]]

\* create_sliding_windows: the vectors and the metadata, one entry per window
create_sliding_windows(F, rets, tk, W, s, mrp) ==
    LET all == Flatten([i \in 1..Len(tk) |-> TickerWindows(F, rets, tk[i], W, s, mrp)])
    IN  [vectors |-> [j \in 1..Len(all) |-> all[j].vector],
         metadata |-> [j \in 1..Len(all) |-> all[j].meta]]

\* window_key = f"{ticker}_{date_start}_{date_end}"
WindowKey(meta) == <<meta.ticker, meta.date_start, meta.date_end>>

\* distance_map.get(distance_metric, Distance.COSINE)
DistanceOf(metric) == IF metric \in {"Cosine", "Euclid", "Dot"} THEN metric ELSE "Cosine"

\* setup_qdrant_collection with recreate=False: an existing collection of another
\* vector size is deleted and created anew
setup_qdrant_collection(coll, vector_size, metric) ==
    IF coll.exists /\ coll.size = vector_size THEN coll
    ELSE [exists |-> TRUE, size |-> vector_size, distance |-> DistanceOf(metric),
          points |-> [id \in {} |-> {}]]

\* PointStruct(id=idx, ...)
PointId(idx, points) == idx

\* index_vectors_to_qdrant with incremental=True, from list position i on: the
\* windows whose key is in the state are skipped, the others are upserted under
\* their point id.
RECURSIVE index_vectors_to_qdrant(_, _, _, _, _)
index_vectors_to_qdrant(vectors, metadata, i, points, keys) ==
    IF i > Len(metadata) THEN [points |-> points, keys |-> keys]
    ELSE LET key == WindowKey(metadata[i])
             id == PointId(i - 1, points)
             point == [vector |-> vectors[i], payload |-> metadata[i]]
         IN  IF key \in keys
             THEN index_vectors_to_qdrant(vectors, metadata, i + 1, points, keys)
             ELSE index_vectors_to_qdrant(vectors, metadata, i + 1,
                    [p \in DOMAIN points \cup {id} |-> IF p = id THEN point ELSE points[p]],
                    keys \cup {key})

IndexFeaturesInQdrant(F, rets, tk, W, s, mrp, metric, coll, keys) ==
    LET n_dates == Cardinality(IndexOf(F))
        created == create_sliding_windows(F, rets, tk, W, s, mrp)
        metadata == IF n_dates < W THEN <<>> ELSE created.metadata
        ready == setup_qdrant_collection(coll, Len(created.vectors[1]), metric)
        done == index_vectors_to_qdrant(created.vectors, metadata, 1, ready.points, keys)
        failed == [result |-> "error", collection |-> coll, indexing_state |-> keys]
    IN  IF n_dates < W THEN failed                   \* line 130: ValueError
        ELSE IF metadata = <<>> THEN failed          \* line 453: ValueError
        ELSE [result |-> "ok",
              collection |-> [ready EXCEPT !.points = done.points],
              indexing_state |-> done.keys]

index_features_in_qdrant ==
    /\ pc[1] = "scaled"
    /\ \E out \in {IndexFeaturesInQdrant(features_scaled[1], returns_clipped[1], tickers,
                                          window_size, window_stride, min_required_points,
                                          distance_metric, collection, indexing_state)} :
        /\ index_result' = out.result
        /\ collection' = out.collection
        /\ indexing_state' = out.indexing_state
    /\ UNCHANGED <<varsPipeline, varsScale, varsExport, window_size, window_stride,
                   min_required_points, windows, distance_metric, varsQuery, varsApp>>

\* Between two indexing runs the pipeline has produced one more row.
AppendIndexRow ==
    /\ pc[1] = "scaled"
    /\ LET F == features_scaled[1]
           n == Cardinality(IndexOf(F))
       IN  /\ n < NIndexRows
           /\ features_scaled' = [features_scaled EXCEPT ![1] =
                    [c \in DOMAIN F |-> [d \in 1..(n + 1) |-> <<0>>]]]
           /\ returns_clipped' = [returns_clipped EXCEPT ![1] =
                    [k \in TickerSet |-> [d \in 1..(n + 1) |-> 0]]]
    /\ UNCHANGED <<prices, train_end_date, thresholds, features_all,
                   scaler_regime, kmeans_regime, pc, altered>>
    /\ UNCHANGED <<scaling_method, scaler_features, varsExport, varsIndex, varsQuery, varsApp>>

\* Between two indexing runs the feature set has been changed.
ReplaceIndexColumns(cols) ==
    /\ pc[1] = "scaled"
    /\ cols # DOMAIN features_scaled[1]
    /\ features_scaled' = [features_scaled EXCEPT ![1] =
            [c \in cols |-> [d \in IndexOf(features_scaled[1]) |-> <<0>>]]]
    /\ UNCHANGED <<varsPipeline, scaling_method, scaler_features, varsExport, varsIndex,
                   varsQuery, varsApp>>

InitIndex ==
    /\ \E cols \in IndexColSets, n \in 1..2 :
        /\ features_scaled = [r \in Runs |->
                IF r = 1 THEN [c \in cols |-> [d \in 1..n |-> <<0>>]] ELSE None]
        /\ returns_clipped = [r \in Runs |->
                IF r = 1 THEN [k \in TickerSet |-> [d \in 1..n |-> 0]] ELSE None]
    /\ tickers \in IndexTickerLists
    /\ window_size \in 2..MaxWindow
    /\ window_stride = stride
    /\ min_required_points = window_size
    /\ windows = None
    /\ distance_metric = "Cosine"
    /\ IdleQuery /\ IdleApp
    /\ collection = Absent
    /\ indexing_state = {}
    /\ index_result = None
    /\ prices = [r \in Runs |-> None]
    /\ train_end_date = 0
    /\ thresholds = [r \in Runs |-> None]
    /\ features_all = [r \in Runs |-> None]
    /\ scaler_regime = [r \in Runs |-> None]
    /\ kmeans_regime = [r \in Runs |-> None]
    /\ scaling_method = "standard"
    /\ scaler_features = [r \in Runs |-> None]
    /\ val_end_date = 0
    /\ exported = [key \in {} |-> {}]
    /\ validated = {}
    /\ export_error = None
    /\ pc = [r \in Runs |-> IF r = 1 THEN "scaled" ELSE "idle"]
    /\ altered = FALSE

NextIndex ==
    \/ index_features_in_qdrant
    \/ AppendIndexRow
    \/ \E cols \in IndexColSets : ReplaceIndexColumns(cols)

SpecIndex == InitIndex /\ [][NextIndex]_vars

\* C9: index dimensionality: an indexing run whose vectors have another length
\* than the existing collection fails, and leaves the collection as it was.
C9_DimensionFixed ==
    [][(/\ index_features_in_qdrant
        /\ collection.exists
        /\ VectorDim(features_scaled[1], window_size) # collection.size
        /\ Cardinality(IndexOf(features_scaled[1])) >= window_size)
            => (index_result' = "error" /\ collection' = collection)]_vars

\* C10: the index is append-only: an indexing run on the same collection leaves
\* every stored point in place with its window, so that a new window never takes
\* the point id of another one.
C10_AppendOnly ==
    [][(collection.exists /\ collection'.exists /\ collection'.size = collection.size)
            => \A id \in DOMAIN collection.points :
                    /\ id \in DOMAIN collection'.points
                    /\ collection'.points[id] = collection.points[id]]_vars

(***************************************************************************)
(* create_sliding_windows on its own: a feature table whose first rows may *)
(* have been dropped (warm-up) and which may hold one NaN cell, the        *)
(* returns of every date, and a window configuration.  A feature cell      *)
(* holds its date, the return of a date is the date (plus 10 for the       *)
(* second ticker), so that the rows a value was taken from can be told.    *)
(***************************************************************************)
MaxStride == 2     \* stride is 1..MaxStride

NotRun == [status |-> "none", vectors |-> <<>>, metadata |-> <<>>]

WindowTickerLists == IndexTickerLists \cup {<<>>}

\* The feature table of the dates lo..hi with the cell of column c at date d
\* missing (no cell is missing when c is None).
WindowTable(cols, lo, hi, c, d) ==
    [col \in cols |-> [t \in lo..hi |-> IF col = c /\ t = d THEN NaN ELSE <<t>>]]

WindowReturnsTable(hi) ==
    [k \in TickerSet |-> [t \in 1..hi |-> IF k = Tickers[1] THEN t ELSE 10 + t]]

\* What the call returns, or that it raised (line 130: ValueError).
CreateSlidingWindows(F, rets, tk, W, s, mrp) ==
    IF Cardinality(IndexOf(F)) < W
    THEN [status |-> "error", vectors |-> <<>>, metadata |-> <<>>]
    ELSE LET out == create_sliding_windows(F, rets, tk, W, s, mrp)
         IN  [status |-> "ok", vectors |-> out.vectors, metadata |-> out.metadata]

call_create_sliding_windows ==
    /\ windows.status = "none"
    /\ windows' = CreateSlidingWindows(features_scaled[1], returns_clipped[1], tickers,
                        window_size, window_stride, min_required_points)
    /\ UNCHANGED <<varsPipeline, varsScale, varsExport, window_size, window_stride,
                   min_required_points, distance_metric, collection, indexing_state,
                   index_result, varsQuery, varsApp>>

InitWindows ==
    /\ \/ /\ \E cols \in IndexColSets, lo \in 1..2, n \in 1..NIndexRows :
             \E c \in cols \cup {None}, d \in lo..(lo + n - 1) :
                /\ features_scaled = [r \in Runs |->
                        IF r = 1 THEN WindowTable(cols, lo, lo + n - 1, c, d) ELSE None]
                /\ returns_clipped = [r \in Runs |->
                        IF r = 1 THEN WindowReturnsTable(lo + n - 1) ELSE None]
          /\ tickers \in WindowTickerLists
          /\ window_size \in 2..MaxWindow
          /\ window_stride \in 1..MaxStride
          /\ min_required_points \in 1..MaxWindow
       \/ /\ features_scaled = [r \in Runs |->
                IF r = 1 THEN WindowTable({"f1"}, 1, 40, None, 1) ELSE None]
          /\ returns_clipped = [r \in Runs |->
                IF r = 1 THEN WindowReturnsTable(40) ELSE None]
          /\ tickers = <<"SPY">>
          /\ window_size = 30
          /\ window_stride = 1
          /\ min_required_points = 25
    /\ windows = NotRun
    /\ distance_metric = "Cosine"
    /\ IdleQuery /\ IdleApp
    /\ collection = Absent
    /\ indexing_state = {}
    /\ index_result = None
    /\ prices = [r \in Runs |-> None]
    /\ train_end_date = 0
    /\ thresholds = [r \in Runs |-> None]
    /\ features_all = [r \in Runs |-> None]
    /\ scaler_regime = [r \in Runs |-> None]
    /\ kmeans_regime = [r \in Runs |-> None]
    /\ scaling_method = "standard"
    /\ scaler_features = [r \in Runs |-> None]
    /\ val_end_date = 0
    /\ exported = [key \in {} |-> {}]
    /\ validated = {}
    /\ export_error = None
    /\ pc = [r \in Runs |-> IF r = 1 THEN "scaled" ELSE "idle"]
    /\ altered = FALSE

NextWindows == call_create_sliding_windows

SpecWindows == InitWindows /\ [][NextWindows]_vars

\* The dates of the feature rows, and the rows with a NaN cell.
WinDates == SortedDates(IndexOf(features_scaled[1]))
NanRows == {d \in IndexOf(features_scaled[1]) :
                \E c \in DOMAIN features_scaled[1] : features_scaled[1][c][d] = NaN}

\* The metadata entries of ticker k.
MetaOf(k) == SelectSeq(windows.metadata, LAMBDA m : m.ticker = k)

\* C11: the return statistics in the metadata of a window are those of the
\* ticker's returns on the dates date_start..date_end of the window, also when
\* the returns table has rows before the first feature row.
C11_WindowReturnDates ==
    windows.status = "ok" =>
        \A j \in 1..Len(windows.metadata) :
            LET m == windows.metadata[j]
                r == returns_clipped[1][m.ticker]
                vals == [i \in 1..window_size |-> r[m.date_start + i - 1]]
            IN  /\ m.returns # NaN
                /\ m.returns[1].cumulative = SeqSum(vals)
                /\ m.returns[1].mean = Ratio(SeqSum(vals), window_size)

\* The start offsets a call has to consider, and the window of such an offset.
Offsets ==
    {i \in 0..(Len(WinDates) - window_size) : i % window_stride = 0}
RowsOf(i) == {WinDates[i + j] : j \in 1..window_size}
NonMissing(i) ==
    Cardinality({cd \in (DOMAIN features_scaled[1]) \X RowsOf(i) :
                    features_scaled[1][cd[1]][cd[2]] # NaN})
Indexed(k, i) ==
    \E j \in 1..Len(windows.metadata) :
        /\ windows.metadata[j].ticker = k
        /\ windows.metadata[j].date_start = WinDates[i + 1]
        /\ windows.metadata[j].date_end = WinDates[i + window_size]

\* C19: a window is indexed exactly when its number of non-missing cells reaches
\* min_required_points * n_features; a rejected window leaves neither a vector
\* nor a metadata entry; every missing cell of an indexed vector is 0, so that no
\* vector holds NaN; and with min_required_points = window_size one NaN cell
\* rejects exactly the windows that cover its row.
C19_WindowAcceptance ==
    windows.status = "ok" =>
        LET F == features_scaled[1]
            nf == Cardinality(DOMAIN F)
            cols == ColumnSeq(F)
            TickersOf == {tickers[t] : t \in 1..Len(tickers)}
        IN  /\ \A k \in TickersOf : \A i \in Offsets :
                    Indexed(k, i) <=> NonMissing(i) >= min_required_points * nf
            /\ Len(windows.vectors) = Len(windows.metadata)
            /\ Len(windows.metadata)
                    = Len(tickers) * Cardinality({i \in Offsets :
                                        NonMissing(i) >= min_required_points * nf})
            /\ \A j \in 1..Len(windows.vectors) :
                    LET v == windows.vectors[j]
                        m == windows.metadata[j]
                    IN  /\ Len(v) = window_size * nf
                        /\ \A q \in 1..Len(v) :
                            LET cell == F[cols[((q - 1) % nf) + 1]]
                                         [m.date_start + ((q - 1) \div nf)]
                            IN  /\ v[q] # NaN
                                /\ v[q] = IF cell = NaN THEN <<0>> ELSE cell
            /\ min_required_points = window_size =>
                    \A k \in TickersOf : \A i \in Offsets :
                        Indexed(k, i) <=> RowsOf(i) \cap NanRows = {}

\* A table with a NaN cell, the minimum being the full window: a window covering
\* the row of the cell was rejected and another window was indexed.
C19_Witness ==
    /\ windows.status = "ok"
    /\ min_required_points = window_size
    /\ NanRows # {}
    /\ \E i \in Offsets : RowsOf(i) \cap NanRows # {} /\ ~Indexed(tickers[1], i)
    /\ \E i \in Offsets : RowsOf(i) \cap NanRows = {} /\ Indexed(tickers[1], i)

NQueryRows == 3
MaxTopK == 2

QueryMetrics == {"Cosine", "Euclid"}

Dot(q, v) == SeqSum([i \in 1..Len(q) |-> q[i][1] * v[i][1]])

SqDist(q, v) == SeqSumSq([i \in 1..Len(q) |-> q[i][1] - v[i][1]])

\* hit.score of the search under the distance of the collection
Score(metric, q, v) ==
    IF metric = "Euclid" THEN [d2 |-> SqDist(q, v)]
    ELSE IF metric = "Dot" THEN [dot |-> Dot(q, v), nq |-> 1, nv |-> 1]
    ELSE [dot |-> Dot(q, v), nq |-> Max(1, Dot(q, q)), nv |-> Max(1, Dot(v, v))]

\* hit a ranks strictly before hit b: a larger similarity, a smaller distance
Better(metric, a, b) ==
    IF metric = "Euclid" THEN a.d2 < b.d2
    ELSE IF a.dot >= 0 /\ b.dot >= 0 THEN a.dot * a.dot * b.nv > b.dot * b.dot * a.nv
    ELSE IF a.dot < 0 /\ b.dot < 0 THEN a.dot * a.dot * b.nv < b.dot * b.dot * a.nv
    ELSE a.dot >= 0 /\ b.dot < 0

\* the score of a vector against itself: distance 0, similarity 1
Exact(metric, a) ==
    IF metric = "Euclid" THEN a.d2 = 0
    ELSE a.dot > 0 /\ a.dot * a.dot = a.nq * a.nv

\* Filter(must=[FieldCondition(key="ticker", match=ticker_filter)])
Candidates(coll, ticker_filter) ==
    {id \in DOMAIN coll.points :
        ticker_filter = None \/ coll.points[id].payload.ticker = ticker_filter}

\* client.search(query_vector, limit=top_k, query_filter): the orders of the best
\* top_k candidates the search may return
Search(coll, query_vector, top_k, ticker_filter) ==
    LET cand == Candidates(coll, ticker_filter)
        m == Min(top_k, Cardinality(cand))
        sc(id) == Score(coll.distance, query_vector, coll.points[id].vector)
    IN  {h \in [1..m -> cand] :
            /\ \A i, j \in 1..m : i < j => h[i] # h[j]
            /\ \A i, j \in 1..m : i < j => ~Better(coll.distance, sc(h[j]), sc(h[i]))
            /\ \A id \in cand : (\A i \in 1..m : h[i] # id) =>
                    \A i \in 1..m : ~Better(coll.distance, sc(id), sc(h[i]))}

\* results = [hit.payload ...], scores = [hit.score ...]
Hits(coll, query_vector, h) ==
    [i \in 1..Len(h) |->
        [payload |-> coll.points[h[i]].payload,
         score |-> Score(coll.distance, query_vector, coll.points[h[i]].vector)]]

\* The arguments of a query, as the state keeps them.
QueryArgs(query_vector, top_k, ticker_filter) ==
    [query_vector |-> query_vector, top_k |-> top_k, ticker_filter |-> ticker_filter]

query_similar_windows(query_vector, top_k, ticker_filter) ==
    /\ collection.exists
    /\ query = NoQuery
    /\ Len(query_vector) = collection.size
    /\ \E h \in Search(collection, query_vector, top_k, ticker_filter) :
        results' = Hits(collection, query_vector, h)
    /\ query' = QueryArgs(query_vector, top_k, ticker_filter)
    /\ UNCHANGED <<varsPipeline, varsScale, varsExport, varsIndex, varsApp,
                   prediction, anomaly, ensemble>>

(***************************************************************************)
(* The helpers compute with the scores as numbers: a score is kept in      *)
(* units of 1/ScoreScale, rounded down (the score of a vector against      *)
(* itself is exact: 0, or ScoreScale for the similarity 1).  A quotient    *)
(* is a reduced pair <<n, d>>, 0/0 being NaN and x/0 an infinity           *)
(* <<1, 0>> or <<-1, 0>>, as numpy computes them.  exp(score) is not       *)
(* evaluated: an exponential weight is kept as the score in its numerator  *)
(* and the scores summed in its denominator.                               *)
(***************************************************************************)
ScoreScale == 100

RECURSIVE ISqrtIn(_, _, _)
ISqrtIn(x, lo, hi) ==
    IF lo = hi THEN lo
    ELSE LET mid == (lo + hi + 1) \div 2
         IN  IF mid * mid <= x THEN ISqrtIn(x, mid, hi) ELSE ISqrtIn(x, lo, mid - 1)

ISqrt(x) == ISqrtIn(x, 0, Min(x, 46340))

\* float(hit.score)
ScoreValue(metric, sc) ==
    IF metric = "Euclid" THEN ISqrt(sc.d2 * ScoreScale * ScoreScale)
    ELSE LET size == ISqrt((sc.dot * sc.dot * ScoreScale * ScoreScale) \div (sc.nq * sc.nv))
         IN  IF sc.dot >= 0 THEN size ELSE -size

Scores(metric, hits) == [i \in 1..Len(hits) |-> ScoreValue(metric, hits[i].score)]

\* r.get(field, 0.0) of a payload, for the return statistics the windows carry
PayloadValue(payload, field) ==
    IF payload.returns = NaN THEN 0 ELSE payload.returns[1][field]

\* a / b of numpy floats
Quotient(a, b) ==
    IF b = 0 THEN (IF a = 0 THEN NaN ELSE IF a > 0 THEN <<1, 0>> ELSE <<-1, 0>>)
    ELSE IF b < 0 THEN Ratio(-a, -b) ELSE Ratio(a, b)

Finite(q) == q # NaN /\ q[2] # 0

RatAdd(a, b) == Ratio(a[1] * b[2] + b[1] * a[2], a[2] * b[2])

RECURSIVE RatSum(_)
RatSum(qs) == IF qs = <<>> THEN <<0, 1>> ELSE RatAdd(Head(qs), RatSum(Tail(qs)))

SeqMin(s) == CHOOSE x \in {s[i] : i \in 1..Len(s)} : \A i \in 1..Len(s) : x <= s[i]
SeqMax(s) == CHOOSE x \in {s[i] : i \in 1..Len(s)} : \A i \in 1..Len(s) : x >= s[i]

WeightMethods == {"inverse_distance", "exponential", "uniform", "rank"}

\* weights of calculate_weighted_prediction
Weights(weight_method, scores) ==
    IF weight_method = "inverse_distance"
    THEN [i \in 1..Len(scores) |-> Quotient(scores[i], SeqSum(scores))]
    ELSE IF weight_method = "exponential"
    THEN [i \in 1..Len(scores) |-> [exp |-> scores[i], over |-> scores]]
    ELSE [i \in 1..Len(scores) |-> Quotient(1, Len(scores))]

\* np.sum(weights * values)
WeightedMean(weight_method, weights, values) ==
    IF weight_method = "exponential"
    THEN <<[i \in 1..Len(weights) |-> [weight |-> weights[i], value |-> values[i]]]>>
    ELSE IF \E i \in 1..Len(weights) : ~Finite(weights[i]) THEN NaN
    ELSE RatSum([i \in 1..Len(weights) |->
                    Ratio(weights[i][1] * values[i], weights[i][2])])

\* np.median of a non-empty list
Median(s) ==
    LET o == Sorted(s)
        n == Len(o)
    IN  IF n % 2 = 1 THEN <<o[(n + 1) \div 2], 1>>
        ELSE Ratio(o[n \div 2] + o[n \div 2 + 1], 2)

\* np.std, kept by n * n * variance = n * sum(x^2) - sum(x)^2
StdNum(s) == Len(s) * SeqSumSq(s) - SeqSum(s) * SeqSum(s)

\* Mutant of Clip01: the value is returned as it is.
Clip01Keep(q) == q

\* max(0.0, min(1.0, x)), in units of 1/ScoreScale
Clip01(q) ==
    IF q[1] < 0 THEN <<0, 1>> ELSE IF q[1] > ScoreScale * q[2] THEN <<ScoreScale, 1>> ELSE q

\* The quotient of a positive number by 1e-6: it exceeds every other number here.
Huge == 10000

\* std / (abs(simple_mean) + 1e-6), in units of 1/ScoreScale, rounded down: the
\* 1e-6 decides only when the mean is 0
Disagreement(values) ==
    LET spread == StdNum(values)
        total == Abs(SeqSum(values))
    IN  IF total = 0 THEN (IF spread = 0 THEN 0 ELSE Huge)
        ELSE ISqrt(spread * ScoreScale * ScoreScale) \div total

\* np.mean(scores) * (1 - std / (abs(simple_mean) + 1e-6)), clipped to [0, 1]
Confidence(scores, values) ==
    Clip01(Ratio(SeqSum(scores) * (ScoreScale - Disagreement(values)),
                 Len(scores) * ScoreScale))

\* Mutant of NoNeighboursPrediction: the statistics of an empty list, as numpy
\* computes them.
NoNeighboursPredictionNaN ==
    [status |-> "ok", weighted_mean |-> <<0, 1>>, simple_mean |-> NaN, median |-> NaN,
     std |-> NaN, confidence |-> NaN, n_neighbors |-> 0]

\* lines 171-179: the result for an empty neighbour list
NoNeighboursPrediction ==
    [status |-> "ok", weighted_mean |-> <<0, 1>>, simple_mean |-> <<0, 1>>,
     median |-> <<0, 1>>, std |-> <<0, 1>>, confidence |-> <<0, 1>>, n_neighbors |-> 0]

\* calculate_weighted_prediction, after its query returned hits
CalculateWeightedPrediction(metric, hits, weight_method) ==
    LET scores == Scores(metric, hits)
        values == [i \in 1..Len(hits) |-> PayloadValue(hits[i].payload, "cumulative")]
        weights == Weights(weight_method, scores)
    IN  IF hits = <<>> THEN NoNeighboursPrediction
        ELSE IF weight_method \notin {"inverse_distance", "exponential", "uniform"}
        THEN [status |-> "error"]                         \* line 200: ValueError
        ELSE [status |-> "ok", weight_method |-> weight_method, scores |-> scores,
              weights |-> weights,
              weighted_mean |-> WeightedMean(weight_method, weights, values),
              simple_mean |-> Ratio(SeqSum(values), Len(values)),
              median |-> Median(values),
              std |-> <<StdNum(values), Len(values)>>,
              confidence |-> Confidence(scores, values),
              n_neighbors |-> Len(hits),
              min_score |-> SeqMin(scores),
              max_score |-> SeqMax(scores)]

calculate_weighted_prediction(query_vector, top_k, weight_method, ticker_filter) ==
    /\ collection.exists
    /\ query = NoQuery
    /\ Len(query_vector) = collection.size
    /\ \E h \in Search(collection, query_vector, top_k, ticker_filter) :
        /\ results' = Hits(collection, query_vector, h)
        /\ prediction' = CalculateWeightedPrediction(collection.distance,
                                Hits(collection, query_vector, h), weight_method)
    /\ query' = QueryArgs(query_vector, top_k, ticker_filter)
    /\ UNCHANGED <<varsPipeline, varsScale, varsExport, varsIndex, varsApp, anomaly,
                   ensemble>>

AnomalyMethods == {"average_distance", "min_distance", "max_distance"}

\* lines 260-265: the result for an empty neighbour list
NoNeighboursAnomaly ==
    [status |-> "ok", anomaly_score |-> <<ScoreScale, 1>>, avg_similarity |-> <<0, 1>>,
     is_anomalous |-> TRUE]

\* calculate_anomaly_score, after its query returned hits
CalculateAnomalyScore(metric, hits, method) ==
    LET scores == Scores(metric, hits)
        distances == [i \in 1..Len(scores) |-> ScoreScale - scores[i]]
        anomaly_score == IF method = "average_distance"
                         THEN Ratio(SeqSum(distances), Len(distances))
                         ELSE <<SeqMin(distances), 1>>
    IN  IF hits = <<>> THEN NoNeighboursAnomaly
        ELSE IF method \notin {"average_distance", "min_distance"}
        THEN [status |-> "error"]                         \* line 275: ValueError
        ELSE [status |-> "ok", anomaly_score |-> Clip01(anomaly_score),
              avg_similarity |-> Ratio(SeqSum(scores), Len(scores)),
              min_similarity |-> SeqMin(scores),
              max_similarity |-> SeqMax(scores),
              is_anomalous |-> 2 * Clip01(anomaly_score)[1] > ScoreScale * Clip01(anomaly_score)[2],
              n_neighbors |-> Len(hits)]

calculate_anomaly_score(query_vector, top_k, method, ticker_filter) ==
    /\ collection.exists
    /\ query = NoQuery
    /\ Len(query_vector) = collection.size
    /\ \E h \in Search(collection, query_vector, top_k, ticker_filter) :
        /\ results' = Hits(collection, query_vector, h)
        /\ anomaly' = CalculateAnomalyScore(collection.distance,
                                Hits(collection, query_vector, h), method)
    /\ query' = QueryArgs(query_vector, top_k, ticker_filter)
    /\ UNCHANGED <<varsPipeline, varsScale, varsExport, varsIndex, varsApp, prediction,
                   ensemble>>

EnsembleFeatureNames ==
    <<"avg_similarity", "min_similarity", "max_similarity", "std_similarity",
      "avg_return", "median_return", "std_return", "min_return", "max_return",
      "avg_sharpe", "avg_volatility", "return_consistency", "positive_ratio">>

\* The value of an ensemble feature; the features of payload fields the windows
\* do not carry here, and of the quotient by |mean| + 1e-6, are named, not
\* evaluated.
EnsembleFeature(name, scores, returns, hits) ==
    CASE name = "avg_similarity" -> Ratio(SeqSum(scores), Len(scores))
      [] name = "min_similarity" -> <<SeqMin(scores), 1>>
      [] name = "max_similarity" -> <<SeqMax(scores), 1>>
      [] name = "std_similarity" -> <<StdNum(scores), Len(scores)>>
      [] name = "avg_return" -> Ratio(SeqSum(returns), Len(returns))
      [] name = "median_return" -> Median(returns)
      [] name = "std_return" -> <<StdNum(returns), Len(returns)>>
      [] name = "min_return" -> <<SeqMin(returns), 1>>
      [] name = "max_return" -> <<SeqMax(returns), 1>>
      [] name = "positive_ratio" ->
            Ratio(Cardinality({i \in 1..Len(returns) : returns[i] > 0}), Len(returns))
      [] OTHER -> <<name, [i \in 1..Len(hits) |-> WindowKey(hits[i].payload)]>>

\* create_ensemble_features, after its query returned hits
CreateEnsembleFeatures(metric, hits) ==
    LET scores == Scores(metric, hits)
        returns == [i \in 1..Len(hits) |-> PayloadValue(hits[i].payload, "cumulative")]
    IN  IF hits = <<>>
        THEN [status |-> "ok", feature_vector |-> [i \in 1..10 |-> <<0, 1>>],
              feature_names |-> <<>>]
        ELSE [status |-> "ok",
              feature_vector |-> [i \in 1..Len(EnsembleFeatureNames) |->
                    EnsembleFeature(EnsembleFeatureNames[i], scores, returns, hits)],
              feature_names |-> EnsembleFeatureNames]

create_ensemble_features(query_vector, top_k) ==
    /\ collection.exists
    /\ query = NoQuery
    /\ Len(query_vector) = collection.size
    /\ \E h \in Search(collection, query_vector, top_k, None) :
        /\ results' = Hits(collection, query_vector, h)
        /\ ensemble' = CreateEnsembleFeatures(collection.distance,
                                Hits(collection, query_vector, h))
    /\ query' = QueryArgs(query_vector, top_k, None)
    /\ UNCHANGED <<varsPipeline, varsScale, varsExport, varsIndex, varsApp, prediction,
                   anomaly>>

\* The feature table whose column c holds the values perm[c][1], perm[c][2], ...
QueryTable(perm) ==
    [c \in DOMAIN perm |-> [t \in 1..NQueryRows |-> <<perm[c][t]>>]]

Orderings(n) == {f \in [1..n -> 1..n] : \A i, j \in 1..n : i # j => f[i] # f[j]}

\* The column set of IndexColSets other than cols.
OtherColumns(cols) == CHOOSE other \in IndexColSets : other # cols

\* The collection and the indexing state before the last indexing run: nothing
\* (no columns), or what a run over the same dates with the columns cols left.
IndexedBefore(cols, rets, tk, W, metric) ==
    IF cols = {} THEN [collection |-> Absent, indexing_state |-> {}]
    ELSE IndexFeaturesInQdrant(QueryTable([c \in cols |-> [t \in 1..NQueryRows |-> t]]),
                               rets, tk, W, stride, W, metric, Absent, {})

\* The collection after the last indexing run of the table.
InitQuery ==
    /\ \E cols \in IndexColSets : \E perm \in [cols -> Orderings(NQueryRows)] :
        /\ features_scaled = [r \in Runs |-> IF r = 1 THEN QueryTable(perm) ELSE None]
        /\ returns_clipped = [r \in Runs |->
                IF r = 1 THEN WindowReturnsTable(NQueryRows) ELSE None]
    /\ tickers \in IndexTickerLists
    /\ window_size \in 2..MaxWindow
    /\ window_stride = stride
    /\ min_required_points = window_size
    /\ distance_metric \in QueryMetrics
    /\ \E before \in {IndexedBefore({}, returns_clipped[1], tickers, window_size,
                                      distance_metric),
                        IndexedBefore(OtherColumns(DOMAIN features_scaled[1]),
                                      returns_clipped[1], tickers, window_size,
                                      distance_metric)} :
       \E out \in {IndexFeaturesInQdrant(features_scaled[1], returns_clipped[1], tickers,
                        window_size, window_stride, min_required_points,
                        distance_metric, before.collection, before.indexing_state)} :
        /\ collection = out.collection
        /\ indexing_state = out.indexing_state
        /\ index_result = out.result
    /\ windows = None
    /\ IdleQuery /\ IdleApp
    /\ prices = [r \in Runs |-> None]
    /\ train_end_date = 0
    /\ thresholds = [r \in Runs |-> None]
    /\ features_all = [r \in Runs |-> None]
    /\ scaler_regime = [r \in Runs |-> None]
    /\ kmeans_regime = [r \in Runs |-> None]
    /\ pc = [r \in Runs |-> IF r = 1 THEN "indexed" ELSE "idle"]
    /\ altered = FALSE
    /\ scaling_method = "standard"
    /\ scaler_features = [r \in Runs |-> None]
    /\ val_end_date = 0
    /\ exported = [key \in {} |-> {}]
    /\ validated = {}
    /\ export_error = None

\* The vectors queried: the vectors of the windows of the feature table.
QueryVectors ==
    LET created == create_sliding_windows(features_scaled[1], returns_clipped[1], tickers,
                        window_size, window_stride, min_required_points)
    IN  {created.vectors[i] : i \in 1..Len(created.vectors)}

NextQuery ==
    \E query_vector \in QueryVectors, top_k \in 1..MaxTopK,
       ticker_filter \in {None} \cup TickerSet :
        \/ query_similar_windows(query_vector, top_k, ticker_filter)
        \/ \E weight_method \in WeightMethods :
            calculate_weighted_prediction(query_vector, top_k, weight_method, ticker_filter)
        \/ \E method \in AnomalyMethods :
            calculate_anomaly_score(query_vector, top_k, method, ticker_filter)
        \/ create_ensemble_features(query_vector, top_k)

SpecQuery == InitQuery /\ [][NextQuery]_vars

\* The points holding the vector of the query that the filter lets through.
QueriedPoints ==
    {id \in Candidates(collection, query.ticker_filter) :
        collection.points[id].vector = query.query_vector}

\* C12: a query with the exact vector of an indexed window returns that window
\* first, at the least distance (0 under the Euclidean distance); the hits are in
\* ascending distance.
C12_SelfQueryFirst ==
    query # NoQuery =>
        /\ \A id \in QueriedPoints :
            /\ results # <<>>
            /\ results[1].payload = collection.points[id].payload
            /\ Exact(collection.distance, results[1].score)
        /\ \A i, j \in 1..Len(results) :
            i < j => ~Better(collection.distance, results[j].score, results[i].score)

\* C13: with at least 2 neighbours asked for, calculate_anomaly_score on a query
\* identical to an indexed window returns an anomaly_score below 0.3, under the
\* Euclidean and under the cosine distance.
C13_SelfQueryLowAnomaly ==
    (anomaly.status = "ok" /\ query.top_k >= 2 /\ QueriedPoints # {}) =>
        10 * anomaly.anomaly_score[1] < 3 * ScoreScale * anomaly.anomaly_score[2]

\* C14: for a non-empty neighbour set the weights of every weighting method are
\* well defined and sum to 1, the inverse_distance weights being proportional to
\* the scores and the exponential weights to exp(score).
C14_WeightsSumToOne ==
    (prediction.status = "ok" /\ prediction.n_neighbors > 0) =>
        LET w == prediction.weights
            s == prediction.scores
            n == Len(w)
        IN  IF prediction.weight_method = "exponential"
            THEN \A i \in 1..n : w[i].exp = s[i] /\ w[i].over = s
            ELSE /\ \A i \in 1..n : Finite(w[i])
                 /\ RatSum(w) = <<1, 1>>
                 /\ prediction.weight_method = "inverse_distance" =>
                        \A i, j \in 1..n :
                            w[i][1] * w[j][2] * s[j] = w[j][1] * w[i][2] * s[i]

\* C15: the feature_vector of create_ensemble_features has one length for every
\* query, with hits or without, and feature_names, when not empty, has that
\* length too.
C15_EnsembleFixedLength ==
    ensemble.status = "ok" =>
        /\ Len(ensemble.feature_vector) = Len(EnsembleFeatureNames)
        /\ ensemble.feature_names # <<>> =>
                Len(ensemble.feature_names) = Len(ensemble.feature_vector)

\* A cell of the matrix handed to run r is NaN or infinite.
HasBadCell(r) ==
    \E c \in ScaleCols : \E t \in IndexOf(features_all[r]) :
        features_all[r][c][t] \in {NaN, Inf}

\* C16: scale_features fails, returning no scaled matrix, whenever a cell of the
\* feature matrix is NaN or infinite, in a training row or in a later row.
C16_NanInfRejected ==
    \A r \in Runs :
        (pc[r] \in {"scaled", "error"} /\ HasBadCell(r)) => pc[r] = "error"

\* C17: for each of 'standard', 'robust' and 'minmax', a matrix without NaN or
\* infinite cells and with a non-empty train partition is fitted, transformed
\* and returned: scale_features does not raise.
C17_VariantsReturn ==
    \A r \in Runs :
        (/\ pc[r] \in {"scaled", "error"}
         /\ scaling_method \in {"standard", "robust", "minmax"}
         /\ ~HasBadCell(r)
         /\ XTrainDates(IndexOf(features_all[r]), train_end_date) # {})
        => pc[r] = "scaled"

\* The splits the cutoffs leave without a row.
EmptySplits ==
    LET idx == SortedDates(IndexOf(features_scaled[1]))
        mask == SplitMask(idx, train_end_date, val_end_date)
    IN  {s \in Splits : BoolSelect(idx, mask[s]) = <<>>}

\* The exceptions export_for_models can raise are a KeyError of a label lookup, an
\* AssertionError of a length or index mismatch and the ValueError of NaT.date():
\* none of them reports an empty split.
ReportsEmptySplit(error) ==
    error \notin {None, "KeyError", "AssertionError",
                  "ValueError: NaTType does not support date"}

\* C18: when the cutoffs leave train, val or test without a row, export_for_models
\* fails with an error that says so, and writes no empty split.
C18_EmptySplitFails ==
    (pc[1] \in {"exported", "error"} /\ EmptySplits # {}) =>
        /\ pc[1] = "error"
        /\ ReportsEmptySplit(export_error)
        /\ \A key \in DOMAIN exported : exported[key].X.index # <<>>

\* C21: when the query returns no neighbour, calculate_weighted_prediction returns
\* the zero-confidence default (confidence 0, every aggregate 0, n_neighbors 0)
\* and calculate_anomaly_score the maximal-anomaly default (anomaly_score 1.0,
\* is_anomalous true); neither raises.
C21_EmptyDefaults ==
    (query # NoQuery /\ results = <<>>) =>
        /\ prediction.status # "error"
        /\ anomaly.status # "error"
        /\ prediction.status = "ok" =>
            /\ prediction.confidence = <<0, 1>>
            /\ prediction.weighted_mean = <<0, 1>>
            /\ prediction.simple_mean = <<0, 1>>
            /\ prediction.median = <<0, 1>>
            /\ prediction.std = <<0, 1>>
            /\ prediction.n_neighbors = 0
        /\ anomaly.status = "ok" =>
            /\ anomaly.anomaly_score = <<ScoreScale, 1>>
            /\ anomaly.is_anomalous

\* A helper was called with a weighting or a method, and its query found nothing.
C21_Witness ==
    /\ query # NoQuery
    /\ results = <<>>
    /\ prediction.status = "ok"
    /\ prediction.n_neighbors = 0

\* C22: the confidence of calculate_weighted_prediction and the anomaly_score of
\* calculate_anomaly_score lie in [0, 1], and is_anomalous holds exactly when
\* anomaly_score > 0.5.
C22_ScoresBounded ==
    /\ prediction.status = "ok" =>
        /\ prediction.confidence[1] >= 0
        /\ prediction.confidence[1] <= ScoreScale * prediction.confidence[2]
    /\ anomaly.status = "ok" =>
        /\ anomaly.anomaly_score[1] >= 0
        /\ anomaly.anomaly_score[1] <= ScoreScale * anomaly.anomaly_score[2]
        /\ anomaly.is_anomalous <=>
                2 * anomaly.anomaly_score[1] > ScoreScale * anomaly.anomaly_score[2]

\* calculate_anomaly_score found neighbours farther than distance 1 of a
\* Euclidean collection: 1 - score is negative before it is clipped.
C22_Witness ==
    /\ anomaly.status = "ok"
    /\ results # <<>>
    /\ collection.distance = "Euclid"
    /\ \E i \in 1..Len(results) : results[i].score.d2 > 1
    /\ anomaly.anomaly_score = <<0, 1>>

\* C23: compute_and_clip_returns raises (a ValueError), returning neither returns
\* nor thresholds, when no return row is dated <= train_end_date or when no
\* return row is left after differencing.
C23_NoTrainRowsRaises ==
    \A r \in Runs :
        (/\ pc[r] \in {"returns", "error"}
         /\ \A t \in ReturnDates(prices[r]) : t > train_end_date)
        => /\ pc[r] = "error"
           /\ returns_clipped[r] = None
           /\ thresholds[r] = None

\* A run with return rows, none of them a training row, has ended.
C23_Witness ==
    /\ pc[1] = "error"
    /\ ReturnDates(prices[1]) # {}
    /\ \A t \in ReturnDates(prices[1]) : t > train_end_date

\* C24: clipping idempotence: the train-derived thresholds applied to the clipped
\* returns change no cell, clip(clip(x)) = clip(x), the thresholds being ordered.
C24_ClipIdempotent ==
    \A r \in Runs :
        pc[r] = "returns" =>
            /\ thresholds[r].lower_threshold <= thresholds[r].upper_threshold
            /\ \A k \in TickerSet : \A t \in DOMAIN returns_clipped[r][k] :
                    Clip(returns_clipped[r][k][t], thresholds[r].lower_threshold,
                         thresholds[r].upper_threshold) = returns_clipped[r][k][t]

\* A run has returned and one of its cells was clipped.
C24_Witness ==
    /\ pc[1] = "returns"
    /\ \E k \in TickerSet : \E t \in DOMAIN returns_clipped[1][k] :
            returns_clipped[1][k][t] # 100 * LogReturns(prices[1])[k][t]

(***************************************************************************)
(* Web backend: webapp/backend/main.py                                     *)
(*                                                                         *)
(* The clock advances in steps of 5 minutes (TEMP_TOKEN_EXPIRY); requests  *)
(* are handled between two steps.  A password or a TOTP code is kept by    *)
(* whether it is the right one.                                            *)
(***************************************************************************)
MaxTime == 3
MaxAttempts == 6
MaxTokens == 1
MaxTempTokens == 1

MAX_LOGIN_ATTEMPTS == 5
LOCKOUT_DURATION == 3       \* timedelta(minutes=15)
TEMP_TOKEN_EXPIRY == 1      \* timedelta(minutes=5)

Emails == {"alice", "nobody"}

\* No request to /health was answered yet.
NoResponse == [status_code |-> 0, body |-> [detail |-> "no request"]]

\* The names bound at module level when a request is served.
ModuleGlobals ==
    {"groq_client", "alpaca_client", "alpaca_trading_available", "bot_task", "bot_state",
     "users_db", "tokens_db", "temp_tokens_db", "login_attempts", "active_sessions"}

\* health_check: the dict is built key by key; reading a name that is not bound
\* raises NameError, which the server answers with 500.
HealthCheck(groq, alpaca, globals) ==
    IF "qdrant_manager" \notin globals
    THEN [status_code |-> 500, body |-> [detail |-> "Internal Server Error"]]
    ELSE [status_code |-> 200,
          body |-> [status |-> "healthy", service |-> "Smart Investment AI Backend",
                    version |-> "1.0.0", timestamp |-> now,
                    dependencies |-> [groq |-> groq, alpaca |-> alpaca, qdrant |-> None]]]

health_check ==
    /\ health_response' = HealthCheck(groq_client, alpaca_trading_available, ModuleGlobals)
    /\ UNCHANGED <<varsData, groq_client, alpaca_trading_available, varsAuth, varsBot,
                   varsRisk>>

\* attempts = [(t, s) for t, s in attempts if now - t < LOCKOUT_DURATION]
RecentAttempts(attempts, t_now) ==
    SelectSeq(attempts, LAMBDA a : t_now - a[1] < LOCKOUT_DURATION)

FailedCount(attempts) == Len(SelectSeq(attempts, LAMBDA a : ~a[2]))

\* check_rate_limit: the attempts it leaves and whether the login is allowed.  The
\* oldest failed attempt kept is younger than LOCKOUT_DURATION, so the remaining
\* lockout is positive whenever the count is reached.
CheckRateLimit(attempts, email, t_now) ==
    IF email \notin DOMAIN attempts THEN [allowed |-> TRUE, attempts |-> attempts]
    ELSE LET kept == RecentAttempts(attempts[email], t_now)
         IN  [allowed |-> FailedCount(kept) < MAX_LOGIN_ATTEMPTS,
              attempts |-> [attempts EXCEPT ![email] = kept]]

\* record_login_attempt
RecordLoginAttempt(attempts, email, t_now, success) ==
    [e \in DOMAIN attempts \cup {email} |->
        (IF e \in DOMAIN attempts THEN attempts[e] ELSE <<>>)
            \o (IF e = email THEN <<<<t_now, success>>>> ELSE <<>>)]

\* tokens_db[token] = user_data
IssueToken(tokens, email, t_now, endpoint) ==
    tokens \cup {[id |-> Cardinality(tokens) + 1, email |-> email, at |-> t_now,
                  by |-> endpoint]}

\* The attempts on record, over all emails.
Recorded(attempts) ==
    Cardinality({<<e, i>> \in (DOMAIN attempts) \X (1..MaxAttempts) : i <= Len(attempts[e])})

\* POST /api/auth/login; totp_code is "none", "good" or "bad"
Login(email, password_ok, totp_code) ==
    LET limit == CheckRateLimit(login_attempts, email, now)
        failed == RecordLoginAttempt(limit.attempts, email, now, FALSE)
        same == [attempts |-> limit.attempts, temp |-> temp_tokens_db,
                 tokens |-> tokens_db, next |-> next_temp_token]
    IN  IF ~limit.allowed THEN same                                         \* 429
        ELSE IF email \notin DOMAIN users_db THEN [same EXCEPT !.attempts = failed]
        ELSE IF ~password_ok THEN [same EXCEPT !.attempts = failed]
        ELSE IF users_db[email].two_factor_enabled /\ totp_code = "none"
        THEN [same EXCEPT !.temp = [t \in DOMAIN temp_tokens_db \cup {next_temp_token} |->
                                        IF t = next_temp_token
                                        THEN [email |-> email, created_at |-> now]
                                        ELSE temp_tokens_db[t]],
                          !.next = next_temp_token + 1]
        ELSE IF users_db[email].two_factor_enabled /\ totp_code = "bad"
        THEN [same EXCEPT !.attempts = failed]
        ELSE [same EXCEPT !.attempts = RecordLoginAttempt(limit.attempts, email, now, TRUE),
                          !.tokens = IssueToken(tokens_db, email, now, "login")]

login(email, password_ok, totp_code) ==
    /\ Recorded(login_attempts) < MaxAttempts
    /\ Cardinality(tokens_db) < MaxTokens
    /\ next_temp_token < MaxTempTokens \/ totp_code # "none"
    /\ \E out \in {Login(email, password_ok, totp_code)} :
        /\ login_attempts' = out.attempts
        /\ temp_tokens_db' = out.temp
        /\ tokens_db' = out.tokens
        /\ next_temp_token' = out.next
    /\ UNCHANGED <<varsData, varsHealth, now, users_db, varsBot, varsRisk>>

\* POST /api/auth/verify-2fa
Verify2FALogin(temp_token, code_ok) ==
    LET same == [attempts |-> login_attempts, temp |-> temp_tokens_db, tokens |-> tokens_db]
        without == [t \in DOMAIN temp_tokens_db \ {temp_token} |-> temp_tokens_db[t]]
        email == temp_tokens_db[temp_token].email
    IN  IF temp_token \notin DOMAIN temp_tokens_db THEN same
        ELSE IF now - temp_tokens_db[temp_token].created_at > TEMP_TOKEN_EXPIRY
        THEN [same EXCEPT !.temp = without]
        ELSE IF email \notin DOMAIN users_db \/ ~users_db[email].two_factor_enabled
        THEN same
        ELSE IF ~code_ok
        THEN [same EXCEPT !.attempts = RecordLoginAttempt(login_attempts, email, now, FALSE)]
        ELSE [attempts |-> RecordLoginAttempt(login_attempts, email, now, TRUE),
              temp |-> without,
              tokens |-> IssueToken(tokens_db, email, now, "verify-2fa")]

verify_2fa_login(temp_token, code_ok) ==
    /\ Recorded(login_attempts) < MaxAttempts
    /\ Cardinality(tokens_db) < MaxTokens
    /\ \E out \in {Verify2FALogin(temp_token, code_ok)} :
        /\ login_attempts' = out.attempts
        /\ temp_tokens_db' = out.temp
        /\ tokens_db' = out.tokens
    /\ UNCHANGED <<varsData, varsHealth, now, users_db, next_temp_token, varsBot, varsRisk>>

\* Five minutes pass.
Tick ==
    /\ now < MaxTime
    /\ now' = now + 1
    /\ UNCHANGED <<varsData, varsHealth, users_db, login_attempts, temp_tokens_db,
                   tokens_db, next_temp_token, varsBot, varsRisk>>

IdleData ==
    /\ prices = [r \in Runs |-> None]
    /\ train_end_date = 0
    /\ returns_clipped = [r \in Runs |-> None]
    /\ thresholds = [r \in Runs |-> None]
    /\ features_all = [r \in Runs |-> None]
    /\ scaler_regime = [r \in Runs |-> None]
    /\ kmeans_regime = [r \in Runs |-> None]
    /\ pc = [r \in Runs |-> "idle"]
    /\ altered = FALSE
    /\ IdleScale /\ IdleExport /\ IdleIndex /\ IdleQuery

\* The backend after start-up: the optional clients are there or not, one user is
\* registered, with or without two-factor authentication.
InitBackend ==
    /\ groq_client \in BOOLEAN
    /\ alpaca_trading_available \in BOOLEAN
    /\ health_response = NoResponse
    /\ now = 0
    /\ \E two_factor \in BOOLEAN :
            users_db = [e \in {"alice"} |-> [two_factor_enabled |-> two_factor]]
    /\ login_attempts = [e \in {} |-> <<>>]
    /\ temp_tokens_db = [t \in {} |-> {}]
    /\ tokens_db = {}
    /\ next_temp_token = 0
    /\ IdleData /\ IdleBot /\ IdleRisk

NextBackend ==
    \/ health_check
    \/ \E email \in Emails, password_ok \in BOOLEAN, totp_code \in {"none", "good", "bad"} :
            login(email, password_ok, totp_code)
    \/ \E temp_token \in 0..MaxTempTokens, code_ok \in BOOLEAN :
            verify_2fa_login(temp_token, code_ok)
    \/ Tick

SpecBackend == InitBackend /\ [][NextBackend]_vars

\* C25: GET /health answers 200 with a JSON object whose status is 'healthy' and
\* which holds service, version, timestamp and a dependencies object, whatever
\* optional dependencies are there.
C25_HealthAlways200 ==
    health_response # NoResponse =>
        /\ health_response.status_code = 200
        /\ health_response.body.status = "healthy"
        /\ {"service", "version", "timestamp", "dependencies"}
                \subseteq DOMAIN health_response.body

\* The failed attempts of an email that count at time t.
FailedInWindow(email, t) ==
    IF email \in DOMAIN login_attempts
    THEN Cardinality({i \in 1..Len(login_attempts[email]) :
                        /\ ~login_attempts[email][i][2]
                        /\ t - login_attempts[email][i][1] < LOCKOUT_DURATION})
    ELSE 0

\* C28: while an email has 5 failed attempts within the lockout window, no access
\* token is issued for it, neither by login nor by verify-2fa.
C28_LockoutHolds ==
    [][\A token \in tokens_db' \ tokens_db :
            FailedInWindow(token.email, now) < MAX_LOGIN_ATTEMPTS]_vars

(***************************************************************************)
(* Trading bot of the backend: start_bot, stop_bot and run_trading_bot     *)
(*                                                                         *)
(* The event loop runs one coroutine at a time and switches at an await    *)
(* only, so a handler is one step up to its await and one step after it.   *)
(* tasks[i] is the i-th task made by asyncio.create_task; bot_task is its  *)
(* index, 0 for None.  handlers counts the requests received and, per      *)
(* task, the stop_bot handlers suspended in `await bot_task`.              *)
(***************************************************************************)
MaxRequests == 5
MaxTasks == 3

\* task.done()
Done(task) == task.status = "done"

LiveTasks == {t \in 1..Len(tasks) : ~Done(tasks[t])}

Suspended(t) == IF t \in DOMAIN handlers.awaiting THEN handlers.awaiting[t] ELSE 0

\* POST /api/bot/start: no await between the first and the last statement.
start_bot ==
    /\ handlers.requests < MaxRequests
    /\ Len(tasks) < MaxTasks
    /\ bot_state' = [bot_state EXCEPT !.running = TRUE]
    /\ IF bot_task = 0 \/ Done(tasks[bot_task])
       THEN /\ tasks' = Append(tasks, [status |-> "pending", must_cancel |-> FALSE])
            /\ bot_task' = Len(tasks) + 1
       ELSE UNCHANGED <<tasks, bot_task>>
    /\ handlers' = [handlers EXCEPT !.requests = @ + 1]
    /\ UNCHANGED <<varsData, varsHealth, varsAuth, varsRisk>>

\* POST /api/bot/stop, up to `await bot_task` (or to the return, without a task).
stop_bot ==
    /\ handlers.requests < MaxRequests
    /\ bot_state' = [bot_state EXCEPT !.running = FALSE]
    /\ IF bot_task # 0 /\ ~Done(tasks[bot_task])
       THEN /\ tasks' = [tasks EXCEPT ![bot_task].must_cancel = TRUE]
            /\ handlers' = [requests |-> handlers.requests + 1,
                            awaiting |-> [t \in DOMAIN handlers.awaiting \cup {bot_task} |->
                                            Suspended(t) + (IF t = bot_task THEN 1 ELSE 0)]]
       ELSE /\ tasks' = tasks
            /\ handlers' = [handlers EXCEPT !.requests = @ + 1]
    /\ UNCHANGED <<varsData, varsHealth, varsAuth, bot_task, varsRisk>>

\* stop_bot after `await bot_task`: the awaited task is done; bot_task = None.
stop_bot_resume(t) ==
    /\ Suspended(t) > 0
    /\ Done(tasks[t])
    /\ bot_task' = 0
    /\ handlers' = [handlers EXCEPT !.awaiting =
                        [u \in {v \in DOMAIN handlers.awaiting : v # t \/ Suspended(t) > 1} |->
                            Suspended(u) - (IF u = t THEN 1 ELSE 0)]]
    /\ UNCHANGED <<varsData, varsHealth, varsAuth, bot_state, tasks, varsRisk>>

\* One step of a run_trading_bot task, from one await to the next.  A task
\* cancelled before its first step never runs; a cancelled sleep raises
\* CancelledError, which breaks the loop; otherwise the loop goes on while
\* bot_state["running"].
RunTradingBot(task, running) ==
    IF task.must_cancel \/ ~running
    THEN [status |-> "done", must_cancel |-> FALSE]
    ELSE [status |-> "sleeping", must_cancel |-> FALSE]

run_trading_bot(t) ==
    /\ ~Done(tasks[t])
    /\ tasks' = [tasks EXCEPT ![t] = RunTradingBot(tasks[t], bot_state.running)]
    /\ UNCHANGED <<varsData, varsHealth, varsAuth, bot_state, bot_task, handlers, varsRisk>>

InitBot ==
    /\ bot_state = [running |-> FALSE]
    /\ bot_task = 0
    /\ tasks = <<>>
    /\ handlers = [requests |-> 0, awaiting |-> [t \in {} |-> 0]]
    /\ IdleData /\ IdleHealth /\ IdleAuth /\ IdleRisk

NextBot ==
    \/ start_bot
    \/ stop_bot
    \/ \E t \in 1..Len(tasks) : stop_bot_resume(t)
    \/ \E t \in 1..Len(tasks) : run_trading_bot(t)

SpecBot == InitBot /\ [][NextBot]_vars

\* C30: at most one run_trading_bot task is alive, and when no request is
\* in progress bot_state['running'] is true exactly when a task is alive.
C30_OneTaskAndFlagAgree ==
    /\ Cardinality(LiveTasks) <= 1
    /\ handlers.awaiting = [t \in {} |-> 0] => (bot_state.running <=> LiveTasks # {})

(***************************************************************************)
(* Risk manager: trading/risk_manager.py                                   *)
(*                                                                         *)
(* Portfolio values are whole dollars and current_drawdown is the exact    *)
(* fraction (high_water_mark - value) / high_water_mark, so the comparisons*)
(* with 0.15 and 0.10 are decided by cross-multiplication.                 *)
(***************************************************************************)
MaxDay == 1
MaxTrades == 2

PortfolioValues == {80, 85, 90, 100}
Turnovers == {0, 1}

max_drawdown == <<15, 100>>
drawdown_pause_threshold == <<10, 100>>

\* a >= b for fractions with positive denominators
RatGeq(a, b) == a[1] * b[2] >= b[1] * a[2]

\* __init__ before _load_state
FreshRiskManager ==
    [high_water_mark |-> 0, current_drawdown |-> <<0, 1>>, trades_today |-> 0,
     daily_turnover |-> 0]

\* _load_state: high_water_mark and, for a file of the same day, the daily
\* counters are read from the file.
LoadState(rm, file, day) ==
    IF ~file.exists THEN rm
    ELSE [rm EXCEPT !.high_water_mark = file.high_water_mark,
                    !.trades_today = IF file.last_date # day THEN 0 ELSE file.trades_today,
                    !.daily_turnover = IF file.last_date # day THEN 0 ELSE file.daily_turnover]

\* _save_state
SaveState(rm, day) ==
    [exists |-> TRUE, high_water_mark |-> rm.high_water_mark,
     current_drawdown |-> rm.current_drawdown, trades_today |-> rm.trades_today,
     daily_turnover |-> rm.daily_turnover, last_date |-> day]

UpdatePortfolioValue(rm, value) ==
    LET hwm == IF value > rm.high_water_mark THEN value ELSE rm.high_water_mark
    IN  [rm EXCEPT !.high_water_mark = hwm,
                   !.current_drawdown = IF hwm > 0 THEN Ratio(hwm - value, hwm) ELSE @]

CheckDrawdown(rm) ==
    [current_drawdown |-> rm.current_drawdown,
     status |-> IF RatGeq(rm.current_drawdown, max_drawdown) THEN "CRITICAL"
                ELSE IF RatGeq(rm.current_drawdown, drawdown_pause_threshold) THEN "WARNING"
                ELSE "OK",
     action |-> IF RatGeq(rm.current_drawdown, max_drawdown) THEN "STOP_TRADING"
                ELSE IF RatGeq(rm.current_drawdown, drawdown_pause_threshold)
                THEN "REDUCE_RISK"
                ELSE "CONTINUE"]

\* RiskManager(): the process restarts and builds a new manager from the file.
RiskManager ==
    /\ risk_manager' = LoadState(FreshRiskManager, risk_state_file, today)
    /\ UNCHANGED <<varsData, varsHealth, varsAuth, varsBot, risk_state_file, today,
                   drawdown_verdict>>

update_portfolio_value(value) ==
    /\ risk_manager' = UpdatePortfolioValue(risk_manager, value)
    /\ risk_state_file' = SaveState(risk_manager', today)
    /\ UNCHANGED <<varsData, varsHealth, varsAuth, varsBot, today, drawdown_verdict>>

check_drawdown ==
    /\ drawdown_verdict' = CheckDrawdown(risk_manager)
    /\ UNCHANGED <<varsData, varsHealth, varsAuth, varsBot, risk_manager, risk_state_file,
                   today>>

record_trade(turnover) ==
    /\ risk_manager.trades_today < MaxTrades
    /\ risk_manager' = [risk_manager EXCEPT !.trades_today = @ + 1,
                                            !.daily_turnover = @ + turnover]
    /\ risk_state_file' = SaveState(risk_manager', today)
    /\ UNCHANGED <<varsData, varsHealth, varsAuth, varsBot, today, drawdown_verdict>>

\* Midnight passes.
NextDay ==
    /\ today < MaxDay
    /\ today' = today + 1
    /\ UNCHANGED <<varsData, varsHealth, varsAuth, varsBot, risk_manager, risk_state_file,
                   drawdown_verdict>>

NotChecked == [current_drawdown |-> <<0, 1>>, status |-> "none", action |-> "none"]

\* A first manager built without a state file.
InitRisk ==
    /\ risk_state_file = Absent
    /\ today = 0
    /\ risk_manager = LoadState(FreshRiskManager, risk_state_file, today)
    /\ drawdown_verdict = NotChecked
    /\ IdleData /\ IdleHealth /\ IdleAuth /\ IdleBot

NextRisk ==
    \/ RiskManager
    \/ \E value \in PortfolioValues : update_portfolio_value(value)
    \/ check_drawdown
    \/ \E turnover \in Turnovers : record_trade(turnover)
    \/ NextDay

SpecRisk == InitRisk /\ [][NextRisk]_vars

\* C29: when check_drawdown reports STOP_TRADING or REDUCE_RISK and the state
\* was saved, a new RiskManager that loads the state reports the same verdict
\* before any new portfolio value arrives.
C29_VerdictSurvivesRestart ==
    [][(/\ RiskManager
        /\ risk_state_file.exists
        /\ CheckDrawdown(risk_manager).action \in {"STOP_TRADING", "REDUCE_RISK"})
            => CheckDrawdown(risk_manager').action = CheckDrawdown(risk_manager).action]_vars

\* The rolling drawdown columns of the feature table.
DrawdownColumns == (TickerSet \X {"dd_20"}) \cup {<<"ew", "dd_60">>}

\* C27: every rolling drawdown feature, per asset and of the equal-weight
\* portfolio, is a non-positive fraction at every date of the feature table.
C27_DrawdownNonPositive ==
    \A r \in Runs : pc[r] = "features" =>
        \A c \in DrawdownColumns : \A t \in TableIndex(features_all[r]) :
            features_all[r][c][t][1] <= 0

\* The closed forms without any shift: the MACD line, its signal line and the
\* momentum over the look-back period.
NaiveMacd(p) ==
    LET fast == Ewm(p, MacdFast)
        slow == Ewm(p, MacdSlow)
    IN  [t \in DOMAIN p |-> CellSub(fast[t], slow[t])]

NaiveSignal(p) == Ewm(NaiveMacd(p), MacdSignal)

NaiveMomentum(p) ==
    [t \in DOMAIN p |->
        IF Has(p, t - Win) THEN Ratio(p[t][1] - p[t - Win][1], p[t - Win][1]) ELSE NaN]

\* The prices of an asset on the dates the feature step keeps.
AlignedPrices(r, k) ==
    Cells([t \in CommonIdx(prices[r], returns_clipped[r]) |-> prices[r][k][t]])

NaiveSeries(p) ==
    [macd |-> NaiveMacd(p), macd_signal |-> NaiveSignal(p), mom_20 |-> NaiveMomentum(p)]

\* C26: the series stored for an indicator is its closed form delayed by exactly
\* one period: the value stored at t is the closed form at t-1, for the MACD
\* line, the MACD signal line and the momentum.
C26_DelayedByOne ==
    \A r \in Runs : pc[r] = "features" =>
        \A k \in TickerSet : \A n \in DOMAIN NaiveSeries(<<>>) :
            \A t \in TableIndex(features_all[r]) :
                features_all[r][<<k, n>>][t] = Shift(NaiveSeries(AlignedPrices(r, k))[n], 1)[t]

====
